---- MODULE Spec2Model ----
(***************************************************************************)
(* A model of the dx12 backend's device/queue object model                 *)
(* (src/backend/dx12/src/lib.rs): PhysicalDevice::open, Drop for Device,   *)
(* CommandQueue::submit / wait_idle and the native queue that executes     *)
(* what they enqueue.                                                      *)
(***************************************************************************)
EXTENDS Integers, Sequences, FiniteSets, TLC

(***************************************************************************)
(* Bounds of the model.                                                    *)
(***************************************************************************)
NumThreads == 2
MaxDevices == 2
MaxFamilies == 2
MaxPriorities == 2
MaxScratchPools == 1
MaxBatches == 2
MaxPending == 3
MaxAdapters == 2
MaxGets == 3
MaxSwapchains == 2
NumSwapchains == 3
MaxDimension == 4

Threads == 1 .. NumThreads
DeviceIds == 1 .. MaxDevices

(***************************************************************************)
(* Program constants and tables.                                           *)
(***************************************************************************)
QUEUE_FAMILIES == <<"Present", "General", "Compute", "Transfer">>

\* const MAX_QUEUES, and QueueFamily::max_queues
MAX_QUEUES == 16
max_queues(family) == IF family = "Present" THEN 1 ELSE MAX_QUEUES

\* hal::Features restricted to one flag that every adapter advertises, the one
\* optional flag (DEPTH_BOUNDS) and one flag that is never advertised.
AllFeatures == {"ROBUST_BUFFER_ACCESS", "DEPTH_BOUNDS", "LOGIC_OP"}
AdvertisedFeatureSets ==
    {{"ROBUST_BUFFER_ACCESS"}, {"ROBUST_BUFFER_ACCESS", "DEPTH_BOUNDS"}}

\* A null native pointer, and the native queues one open() can create: the
\* present queue and the queue of priority k of the i-th requested family.
NULL == <<0, 0>>
PresentQueueId == <<0, 1>>
NormalQueueId(i, k) == <<i, k>>

\* The families argument of open(): (family, priorities) pairs.
FamilyRequest(kinds, n) == [family : kinds, priorities : 0 .. n]
RequestsUpTo(kinds, len, n) ==
    UNION {[1 .. l -> FamilyRequest(kinds, n)] : l \in 0 .. len}

\* The arguments passed where threads race for the PhysicalDevice ("lifecycle"),
\* and where one thread opens and drops one Device at a time ("teardown").
LifecycleRequests == {<<[family |-> "Present", priorities |-> 1]>>}
TeardownRequests == RequestsUpTo({"Present", "General"}, MaxFamilies, MaxPriorities)

\* One family asked for with no priority, with one, and with one more than
\* its family says it has queues ("limits").
LimitRequests ==
    {<<[family |-> f, priorities |-> n]>> :
        f \in {"Present", "General"}, n \in {0, 1, MAX_QUEUES + 1}}

VARIABLES
    world,               \* how the PhysicalDevice is used: "lifecycle" or "teardown"
    features,            \* PhysicalDevice.features
    is_open,             \* the bool inside PhysicalDevice.is_open / Device.open
    lockHolder,          \* the thread holding the is_open mutex, 0 when free
    crashed,             \* the process died on a null native pointer
    pc,                  \* each thread's position
    ret,                 \* the call that has just returned: its thread and result
    requested_features,  \* open()'s argument
    families,            \* open()'s argument
    device_raw,          \* open()'s local
    present_queue,       \* open()'s local
    cur,                 \* the Device a thread is building or dropping
    idx,                 \* loop index of open()'s map / drop()'s for
    devices,             \* the Device objects
    closed,              \* history: some Device teardown has run to its end
    idle_fence,          \* the value of a CommandQueue's idle_fence
    idle_event,          \* whether its idle_event is signaled
    armed,               \* idle_event is registered to fire when idle_fence reaches 1
    gpuQ,                \* what the native queue has been given and not yet executed
    completed,           \* the batches the device has executed
    signaled,            \* the batches whose client fence has the value 1
    submitted,           \* the number of the last batch whose submit() began
    fenced,              \* history: the batches submitted with a client fence
    qpc,                 \* each thread's position in submit() / wait_idle()
    batch,               \* submit(): the batch being submitted, 0 when none
    steps,               \* history: the native calls of a thread's last submit()
    prior,               \* history: the batches submitted before wait_idle() began
    qret,                \* the queue call that has just returned: thread and name
    failed,              \* history: the native calls that failed in the last wait_idle()
    factory,             \* the adapters the DXGI factory enumerates, in its order
    use_f6,              \* enumerate_adapters: the factory casts to IDXGIFactory6
    cur_index,           \* enumerate_adapters: the number of adapters fetched
    adapters,            \* enumerate_adapters: the Vec it builds and returns
    epc,                 \* enumerate_adapters: "loop", "returned" or "panicked"
    cache,               \* FormatProperties.0: the value of each slot, None when empty
    slot_lock,           \* the thread holding each slot's mutex, 0 when free
    poisoned,            \* whether a thread panicked while holding the slot's mutex
    fpc,                 \* each thread's position in FormatProperties::get
    fidx,                \* get()'s argument idx
    fdata,               \* get()'s local data, as the native query filled it
    fret,                \* the get() that has just returned: thread, idx and value
    queries,             \* history: the native queries made for each format
    gets,                \* history: the get() calls begun for each format
    got,                 \* history: who get() has returned which value, for each format
    swapchains,          \* present()'s argument: the batch
    wait_semaphores,     \* present()'s argument
    pnext,               \* present(): the position of the for loop in the batch
    presented,           \* history: the native Present calls of the last present()
    ppc,                 \* the position in present(): "idle" or "loop"
    pret,                \* the result of the present() that has just returned
    iargs,               \* the arguments of the image_format_properties() in progress
    iret                 \* the image_format_properties() that has just returned

devVars == <<world, features, is_open, lockHolder, crashed, pc, ret, requested_features,
             families, device_raw, present_queue, cur, idx, devices, closed>>

queueVars == <<idle_fence, idle_event, armed, gpuQ, completed, signaled, submitted, fenced,
               qpc, batch, steps, prior, qret, failed>>

enumVars == <<factory, use_f6, cur_index, adapters, epc>>

formatVars == <<cache, slot_lock, poisoned, fpc, fidx, fdata, fret, queries, gets, got>>

presentVars == <<swapchains, wait_semaphores, pnext, presented, ppc, pret>>

imageVars == <<iargs, iret>>

vars == <<devVars, queueVars, enumVars, formatVars, presentVars, imageVars>>

\* What the steps of a Device, and of a queue, leave alone.
notDevice == <<queueVars, enumVars, formatVars, presentVars, imageVars>>
notQueue == <<devVars, enumVars, formatVars, presentVars, imageVars>>
notEnum == <<devVars, queueVars, formatVars, presentVars, imageVars>>
notFormat == <<devVars, queueVars, enumVars, presentVars, imageVars>>
notPresent == <<devVars, queueVars, enumVars, formatVars, imageVars>>
notImage == <<devVars, queueVars, enumVars, presentVars>>

openArgs == <<requested_features, families>>
openLocals == <<device_raw, present_queue>>
physical == <<world, features>>

NoDevice ==
    [state |-> "none", raw |-> "unset", present_queue |-> NULL, queues |-> <<>>,
     groups |-> <<>>, log |-> <<>>]

NoReturn == [thread |-> 0, value |-> "None"]
Return(t, v) == [thread |-> t, value |-> v]

InitDevice(use, advertised) ==
    /\ world = use
    /\ features \in advertised
    /\ is_open = FALSE
    /\ lockHolder = 0
    /\ crashed = FALSE
    /\ pc = [t \in Threads |-> "idle"]
    /\ ret = NoReturn
    /\ requested_features = [t \in Threads |-> {}]
    /\ families = [t \in Threads |-> <<>>]
    /\ device_raw = [t \in Threads |-> "unset"]
    /\ present_queue = [t \in Threads |-> "unset"]
    /\ cur = [t \in Threads |-> 0]
    /\ idx = [t \in Threads |-> 0]
    /\ devices = [d \in DeviceIds |-> NoDevice]
    /\ closed = FALSE

\* No enumeration is running.
NoEnumeration ==
    /\ factory = <<>>
    /\ use_f6 = FALSE
    /\ cur_index = 0
    /\ adapters = <<>>
    /\ epc = "returned"

\* The threads that use the PhysicalDevice, the Devices that fit in memory, the
\* arguments open() is called with, whether teardown calls are recorded, and
\* whether the native queue creations of open() are, and whether the native
\* calls of wait_idle() can fail.
ActiveThreads == IF world = "lifecycle" THEN Threads ELSE {1}
Slots == IF world = "lifecycle" THEN DeviceIds ELSE {1}
OpenRequests ==
    CASE world = "lifecycle" -> LifecycleRequests
      [] world = "limits" -> LimitRequests
      [] OTHER -> TeardownRequests
Recording == world = "teardown"
Counting == world = "groups"
Faulty == world = "faults"

FreeSlots == {d \in Slots : devices[d].state = "none"}
LiveDevices == {d \in Slots : devices[d].state = "live"}

\* What a returning open() leaves of its frame.
ClearFrame(t) ==
    /\ requested_features' = [requested_features EXCEPT ![t] = {}]
    /\ families' = [families EXCEPT ![t] = <<>>]
    /\ device_raw' = [device_raw EXCEPT ![t] = "unset"]
    /\ present_queue' = [present_queue EXCEPT ![t] = "unset"]
    /\ cur' = [cur EXCEPT ![t] = 0]
    /\ idx' = [idx EXCEPT ![t] = 0]

(***************************************************************************)
(* PhysicalDevice::open                                                    *)
(***************************************************************************)

\* What open() would do with self.is_open.lock() in place of try_lock(): wait
\* for the mutex.
OpenLock(t) ==
    /\ t \in ActiveThreads
    /\ pc[t] = "idle"
    /\ ~crashed
    /\ lockHolder = 0
    /\ FreeSlots # {}
    /\ lockHolder' = t
    /\ pc' = [pc EXCEPT ![t] = "open_features"]
    /\ \E fams \in OpenRequests, feats \in SUBSET AllFeatures :
          /\ requested_features' = [requested_features EXCEPT ![t] = feats]
          /\ families' = [families EXCEPT ![t] = fams]
    /\ ret' = NoReturn
    /\ UNCHANGED <<notDevice, physical, is_open, crashed, openLocals, cur, idx, devices, closed>>

\* let lock = self.is_open.try_lock(); Err(_) => return Err(TooManyObjects)
OpenTryLock(t) ==
    /\ t \in ActiveThreads
    /\ pc[t] = "idle"
    /\ ~crashed
    /\ \/ /\ lockHolder = 0
          /\ FreeSlots # {}
          /\ lockHolder' = t
          /\ pc' = [pc EXCEPT ![t] = "open_features"]
          /\ \E fams \in OpenRequests, feats \in SUBSET AllFeatures :
                /\ requested_features' = [requested_features EXCEPT ![t] = feats]
                /\ families' = [families EXCEPT ![t] = fams]
          /\ ret' = NoReturn
       \/ /\ lockHolder # 0
          /\ ret' = Return(t, "TooManyObjects")
          /\ UNCHANGED <<lockHolder, pc, openArgs>>
    /\ UNCHANGED <<notDevice, physical, is_open, crashed, openLocals, cur, idx, devices, closed>>

\* What open() would do with the feature check moved behind
\* native::Device::create: the native device exists when the check fails.
OpenCheckFeaturesLate(t) ==
    /\ pc[t] = "open_features"
    /\ ~crashed
    /\ device_raw' = [device_raw EXCEPT ![t] = "ok"]
    /\ IF requested_features[t] \subseteq features
       THEN /\ pc' = [pc EXCEPT ![t] = "open_present"]
            /\ ret' = NoReturn
            /\ UNCHANGED lockHolder
       ELSE /\ pc' = [pc EXCEPT ![t] = "idle"]
            /\ ret' = Return(t, "MissingFeature")
            /\ lockHolder' = 0
    /\ UNCHANGED <<notDevice, physical, is_open, crashed, openArgs, present_queue, cur, idx,
                   devices, closed>>

\* What open() would do if the guard were leaked on the MissingFeature return.
OpenCheckFeaturesKeepLock(t) ==
    /\ pc[t] = "open_features"
    /\ ~crashed
    /\ IF requested_features[t] \subseteq features
       THEN /\ pc' = [pc EXCEPT ![t] = "open_device"]
            /\ ret' = NoReturn
            /\ UNCHANGED <<openArgs, openLocals, cur, idx>>
       ELSE /\ pc' = [pc EXCEPT ![t] = "idle"]
            /\ ret' = Return(t, "MissingFeature")
            /\ ClearFrame(t)
    /\ UNCHANGED <<notDevice, physical, is_open, lockHolder, crashed, devices, closed>>

\* if !self.features().contains(requested_features) { return Err(MissingFeature) }
\* Returning drops open_guard, which releases the mutex.
OpenCheckFeatures(t) ==
    /\ pc[t] = "open_features"
    /\ ~crashed
    /\ IF requested_features[t] \subseteq features
       THEN /\ pc' = [pc EXCEPT ![t] = "open_device"]
            /\ ret' = NoReturn
            /\ UNCHANGED <<lockHolder, openArgs, openLocals, cur, idx>>
       ELSE /\ pc' = [pc EXCEPT ![t] = "idle"]
            /\ ret' = Return(t, "MissingFeature")
            /\ lockHolder' = 0
            /\ ClearFrame(t)
    /\ UNCHANGED <<notDevice, physical, is_open, crashed, devices, closed>>

\* native::Device::create(...); a failure is logged and open() goes on.
OpenCreateDevice(t) ==
    /\ pc[t] = "open_device"
    /\ ~crashed
    /\ \E ok \in BOOLEAN :
          device_raw' = [device_raw EXCEPT ![t] = IF ok THEN "ok" ELSE "null"]
    /\ pc' = [pc EXCEPT ![t] = "open_present"]
    /\ ret' = NoReturn
    /\ UNCHANGED <<notDevice, physical, is_open, lockHolder, crashed, openArgs, present_queue,
                   cur, idx, devices, closed>>

\* device_raw.create_command_queue(Present...); a failure is logged and open()
\* goes on. On a null device_raw the call dereferences a null pointer.
OpenCreatePresentQueue(t) ==
    /\ pc[t] = "open_present"
    /\ ~crashed
    /\ \/ /\ \E ok \in BOOLEAN :
                present_queue' = [present_queue EXCEPT ![t] = IF ok THEN "ok" ELSE "null"]
          /\ pc' = [pc EXCEPT ![t] = "open_new"]
          /\ UNCHANGED crashed
       \/ /\ device_raw[t] = "null"
          /\ crashed' = TRUE
          /\ UNCHANGED <<present_queue, pc>>
    /\ ret' = NoReturn
    /\ UNCHANGED <<notDevice, physical, is_open, lockHolder, openArgs, device_raw, cur, idx,
                   devices, closed>>

\* let mut device = Device::new(device_raw, &self, present_queue);
OpenDeviceNew(t) ==
    /\ pc[t] = "open_new"
    /\ ~crashed
    /\ LET d == CHOOSE x \in FreeSlots : \A y \in FreeSlots : x <= y IN
          /\ cur' = [cur EXCEPT ![t] = d]
          /\ devices' = [devices EXCEPT ![d] =
                [state |-> "building",
                 raw |-> device_raw[t],
                 present_queue |-> IF present_queue[t] = "ok" THEN PresentQueueId ELSE NULL,
                 queues |-> <<>>,
                 groups |-> <<>>,
                 log |-> <<>>]]
    /\ idx' = [idx EXCEPT ![t] = 1]
    /\ pc' = [pc EXCEPT ![t] = "open_groups"]
    /\ ret' = NoReturn
    /\ UNCHANGED <<notDevice, physical, is_open, lockHolder, crashed, openArgs, openLocals, closed>>

\* What a queue would be with the fence and event of the Device's first queue.
SharedIdleQueue(raw, n) == [raw |-> raw, idle_fence |-> 1, idle_event |-> 1]

\* CommandQueue { raw, idle_fence: device.create_raw_fence(false),
\*                idle_event: create_idle_event() }: the n-th queue of a Device
\* gets the n-th fence and the n-th event created for it.
NewCommandQueue(raw, n) == [raw |-> raw, idle_fence |-> n, idle_event |-> n]

\* for _ in 0 .. priorities.len(): the queues of the i-th family, given the
\* success of each native creation and the n queues the Device already has.
RECURSIVE NormalQueues(_, _, _, _)
NormalQueues(i, k, ok, n) ==
    IF k > Len(ok) THEN <<>>
    ELSE IF ok[k]
         THEN <<NewCommandQueue(NormalQueueId(i, k), n + 1)>>
                  \o NormalQueues(i, k + 1, ok, n + 1)
         ELSE NormalQueues(i, k + 1, ok, n)

\* What the closure would add with a present queue handle per priority.
GroupQueuesPerPriority(dev, i, req, ok) ==
    IF req.family = "Present"
    THEN [k \in 1 .. req.priorities |->
             NewCommandQueue(dev.present_queue, Len(dev.queues) + k)]
    ELSE NormalQueues(i, 1, ok, Len(dev.queues))

\* match family { Present => one queue on device.present_queue, Normal(_) => ... }
GroupQueues(dev, i, req, ok) ==
    IF req.family = "Present"
    THEN <<NewCommandQueue(dev.present_queue, Len(dev.queues) + 1)>>
    ELSE NormalQueues(i, 1, ok, Len(dev.queues))

\* hal::backend::RawQueueGroup::new(family) with the queues added to it; as
\* history, the priorities asked for and the success of each native creation.
QueueGroup(req, qs, ok) ==
    [family |-> req.family,
     queues |-> qs,
     priorities |-> IF Counting THEN req.priorities ELSE 0,
     created |-> IF Counting /\ req.family # "Present" THEN ok ELSE <<>>]

\* Whether each of the n native create_command_queue calls of a family
\* succeeds: every pattern, or where n goes past MAX_QUEUES ("limits") the
\* patterns with no failure, with one, and with nothing but failures.
CreationOutcomes(n) ==
    IF world = "limits"
    THEN {[k \in 1 .. n |-> k # j] : j \in 0 .. n} \cup {[k \in 1 .. n |-> FALSE]}
    ELSE [1 .. n -> BOOLEAN]

\* One call of the closure of families.into_iter().map(...): the queues are
\* appended to device.queues (append_queue) and to the group (add_queue).
OpenQueueGroup(t) ==
    /\ pc[t] = "open_groups"
    /\ ~crashed
    /\ idx[t] <= Len(families[t])
    /\ LET d == cur[t]
           req == families[t][idx[t]]
       IN \E ok \in CreationOutcomes(req.priorities) :
             LET qs == GroupQueues(devices[d], idx[t], req, ok) IN
             devices' = [devices EXCEPT
                 ![d].queues = @ \o qs,
                 ![d].groups = Append(@, QueueGroup(req, qs, ok))]
    /\ idx' = [idx EXCEPT ![t] = @ + 1]
    /\ ret' = NoReturn
    /\ UNCHANGED <<notDevice, physical, is_open, lockHolder, crashed, pc, openArgs, openLocals,
                   cur, closed>>

\* *open_guard = true; Ok(hal::Gpu { device, queues }); open_guard is dropped.
OpenFinish(t) ==
    /\ pc[t] = "open_groups"
    /\ ~crashed
    /\ idx[t] > Len(families[t])
    /\ is_open' = TRUE
    /\ lockHolder' = 0
    /\ devices' = [devices EXCEPT ![cur[t]].state = "live"]
    /\ ret' = Return(t, "Ok")
    /\ ClearFrame(t)
    /\ pc' = [pc EXCEPT ![t] = "idle"]
    /\ UNCHANGED <<notDevice, physical, crashed, closed>>

(***************************************************************************)
(* Drop for Device                                                         *)
(***************************************************************************)

\* The native calls of a teardown, in the order they are made.
Logged(d, events) ==
    IF Recording THEN [devices EXCEPT ![d].log = @ \o events] ELSE devices

\* self.open.lock(): blocks until the mutex is free.
DropLock(t, d) ==
    /\ t \in ActiveThreads
    /\ d \in Slots
    /\ pc[t] = "idle"
    /\ ~crashed
    /\ devices[d].state = "live"
    /\ lockHolder = 0
    /\ lockHolder' = t
    /\ devices' = [devices EXCEPT ![d].state = "dropping"]
    /\ cur' = [cur EXCEPT ![t] = d]
    /\ pc' = [pc EXCEPT ![t] = "drop_clear"]
    /\ ret' = NoReturn
    /\ UNCHANGED <<notDevice, physical, is_open, crashed, openArgs, openLocals, idx, closed>>

\* What drop() would do without the store of false: lock and unlock only.
DropKeepFlag(t) ==
    /\ pc[t] = "drop_clear"
    /\ ~crashed
    /\ lockHolder' = 0
    /\ devices' = Logged(cur[t], <<<<"clear_open_flag", 0>>>>)
    /\ pc' = [pc EXCEPT ![t] = "drop_destroy"]
    /\ ret' = NoReturn
    /\ UNCHANGED <<notDevice, physical, is_open, crashed, openArgs, openLocals, cur, idx, closed>>

\* What drop() would do with the guard bound to a variable of the function:
\* the mutex stays locked while the Device is destroyed.
DropHoldLock(t) ==
    /\ pc[t] = "drop_clear"
    /\ ~crashed
    /\ is_open' = FALSE
    /\ devices' = Logged(cur[t], <<<<"clear_open_flag", 0>>>>)
    /\ pc' = [pc EXCEPT ![t] = "drop_destroy"]
    /\ ret' = NoReturn
    /\ UNCHANGED <<notDevice, physical, lockHolder, crashed, openArgs, openLocals, cur, idx,
                   closed>>

\* *guard = false; the temporary guard is dropped at the end of the statement.
DropClearFlag(t) ==
    /\ pc[t] = "drop_clear"
    /\ ~crashed
    /\ is_open' = FALSE
    /\ lockHolder' = 0
    /\ devices' = Logged(cur[t], <<<<"clear_open_flag", 0>>>>)
    /\ pc' = [pc EXCEPT ![t] = "drop_destroy"]
    /\ ret' = NoReturn
    /\ UNCHANGED <<notDevice, physical, crashed, openArgs, openLocals, cur, idx, closed>>

\* CommandQueue::destroy of the i-th queue of a Device.
QueueDestroy(i) ==
    <<<<"close_idle_event", i>>, <<"destroy_idle_fence", i>>, <<"destroy_queue", i>>>>

\* for queue in &mut self.queues { queue.destroy(); }
RECURSIVE QueuesDestroy(_, _)
QueuesDestroy(i, n) ==
    IF i > n THEN <<>> ELSE QueueDestroy(i) \o QueuesDestroy(i + 1, n)

\* What the unsafe block of drop() would call with self.raw.destroy() moved to
\* its top.
TeardownCallsDeviceFirst(dev, scratch, debug) ==
    <<<<"destroy_raw_device", 0>>>>
    \o QueuesDestroy(1, Len(dev.queues))
    \o <<<<"destroy_shared", 0>>>>
    \o <<<<"destroy_heap_srv_cbv_uav", 0>>, <<"destroy_heap_sampler", 0>>>>
    \o <<<<"destroy_rtv_pool", 0>>, <<"destroy_dsv_pool", 0>>,
         <<"destroy_srv_uav_pool", 0>>, <<"destroy_sampler_pool", 0>>>>
    \o [i \in 1 .. scratch |-> <<"destroy_scratch_pool", i>>]
    \o (IF debug THEN <<<<"report_live_objects", 0>>>> ELSE <<>>)

\* The unsafe block of drop(): the queues, self.shared, the two GPU-visible
\* heaps, the four CPU pools, the descriptor_update_pools (pushed while the
\* Device was in use: scratch of them), the live-object report when the debug
\* interface is available, self.raw.
TeardownCalls(dev, scratch, debug) ==
    QueuesDestroy(1, Len(dev.queues))
    \o <<<<"destroy_shared", 0>>>>
    \o <<<<"destroy_heap_srv_cbv_uav", 0>>, <<"destroy_heap_sampler", 0>>>>
    \o <<<<"destroy_rtv_pool", 0>>, <<"destroy_dsv_pool", 0>>,
         <<"destroy_srv_uav_pool", 0>>, <<"destroy_sampler_pool", 0>>>>
    \o [i \in 1 .. scratch |-> <<"destroy_scratch_pool", i>>]
    \o (IF debug THEN <<<<"report_live_objects", 0>>>> ELSE <<>>)
    \o <<<<"destroy_raw_device", 0>>>>

\* Releasing a null native queue or a null native device dereferences null.
TouchesNull(dev) ==
    \/ dev.raw = "null"
    \/ \E i \in 1 .. Len(dev.queues) : dev.queues[i].raw = NULL

\* The rest of drop(), which touches nothing another thread can see.
DropDestroy(t) ==
    /\ pc[t] = "drop_destroy"
    /\ ~crashed
    /\ \/ /\ \E scratch \in 0 .. MaxScratchPools, debug \in BOOLEAN :
                devices' = [Logged(cur[t], TeardownCalls(devices[cur[t]], scratch, debug))
                               EXCEPT ![cur[t]].state = "dropped"]
          /\ pc' = [pc EXCEPT ![t] = "drop_fields"]
          /\ UNCHANGED crashed
       \/ /\ TouchesNull(devices[cur[t]])
          /\ crashed' = TRUE
          /\ UNCHANGED <<devices, pc>>
    /\ ret' = NoReturn
    /\ UNCHANGED <<notDevice, physical, is_open, lockHolder, openArgs, openLocals, cur, idx,
                   closed>>

\* drop() returns and the fields of the Device are dropped: the Device is gone.
DropFields(t) ==
    /\ pc[t] = "drop_fields"
    /\ ~crashed
    /\ devices' = [devices EXCEPT ![cur[t]] = NoDevice]
    /\ cur' = [cur EXCEPT ![t] = 0]
    /\ closed' = TRUE
    /\ ret' = Return(t, "Dropped")
    /\ pc' = [pc EXCEPT ![t] = "idle"]
    /\ UNCHANGED <<notDevice, physical, is_open, lockHolder, crashed, openArgs, openLocals, idx>>

(***************************************************************************)
(* CommandQueue: one queue handle of an open Device, and the native queue  *)
(* behind it, which executes what it is given in order.                    *)
(***************************************************************************)
NoQueueReturn == [thread |-> 0, call |-> "none"]

\* idle_fence: device.create_raw_fence(false), idle_event: Event::create(true, false)
InitQueue ==
    /\ idle_fence = 0
    /\ idle_event = FALSE
    /\ armed = FALSE
    /\ gpuQ = <<>>
    /\ completed = {}
    /\ signaled = {}
    /\ submitted = 0
    /\ fenced = {}
    /\ qpc = [t \in Threads |-> "idle"]
    /\ batch = [t \in Threads |-> 0]
    /\ steps = [t \in Threads |-> <<>>]
    /\ prior = [t \in Threads |-> {}]
    /\ qret = NoQueueReturn
    /\ failed = [t \in Threads |-> {}]

QueueThreads == {1}

Step(t, name) == [steps EXCEPT ![t] = Append(@, name)]

\* self.idle_fence.signal(0): the fence is set from the CPU, at once.
SubmitResetFence(t) ==
    /\ qpc[t] = "idle"
    /\ submitted < MaxBatches
    /\ submitted' = submitted + 1
    /\ batch' = [batch EXCEPT ![t] = submitted + 1]
    /\ \E fence \in BOOLEAN :
          fenced' = IF fence THEN fenced \cup {submitted + 1} ELSE fenced
    /\ idle_fence' = 0
    /\ steps' = [steps EXCEPT ![t] = <<"reset_idle_fence">>]
    /\ qpc' = [qpc EXCEPT ![t] = "submit_reset_event"]
    /\ qret' = NoQueueReturn
    /\ UNCHANGED <<notQueue, failed, idle_event, armed, gpuQ, completed, signaled, prior>>

\* synchapi::ResetEvent(self.idle_event.0);
SubmitResetEvent(t) ==
    /\ qpc[t] = "submit_reset_event"
    /\ idle_event' = FALSE
    /\ steps' = Step(t, "reset_idle_event")
    /\ qpc' = [qpc EXCEPT ![t] = "submit_execute"]
    /\ qret' = NoQueueReturn
    /\ UNCHANGED <<notQueue, failed, idle_fence, armed, gpuQ, completed, signaled, submitted, fenced, batch,
                   prior>>

\* self.raw.ExecuteCommandLists(...); with fence == None submit() returns here.
SubmitExecute(t) ==
    /\ qpc[t] = "submit_execute"
    /\ Len(gpuQ) < MaxPending
    /\ gpuQ' = Append(gpuQ, [op |-> "execute", batch |-> batch[t]])
    /\ steps' = Step(t, "execute")
    /\ IF batch[t] \in fenced
       THEN /\ qpc' = [qpc EXCEPT ![t] = "submit_signal"]
            /\ qret' = NoQueueReturn
            /\ UNCHANGED batch
       ELSE /\ qpc' = [qpc EXCEPT ![t] = "idle"]
            /\ qret' = [thread |-> t, call |-> "submit"]
            /\ batch' = [batch EXCEPT ![t] = 0]
    /\ UNCHANGED <<notQueue, failed, idle_fence, idle_event, armed, completed, signaled, submitted, fenced,
                   prior>>

\* What submit() would do with fence.raw.Signal(1) (ID3D12Fence::Signal, from
\* the CPU) in place of the queue's Signal: the fence is 1 at once.
SubmitSignalFromCpu(t) ==
    /\ qpc[t] = "submit_signal"
    /\ signaled' = signaled \cup {batch[t]}
    /\ steps' = Step(t, "signal_fence")
    /\ qpc' = [qpc EXCEPT ![t] = "idle"]
    /\ qret' = [thread |-> t, call |-> "submit"]
    /\ batch' = [batch EXCEPT ![t] = 0]
    /\ UNCHANGED <<notQueue, failed, idle_fence, idle_event, armed, gpuQ, completed, submitted, fenced,
                   prior>>

\* if let Some(fence) = fence { self.raw.Signal(fence.raw, 1) }: the signal is
\* queued behind the batch.
SubmitSignal(t) ==
    /\ qpc[t] = "submit_signal"
    /\ Len(gpuQ) < MaxPending
    /\ gpuQ' = Append(gpuQ, [op |-> "signal_fence", batch |-> batch[t]])
    /\ steps' = Step(t, "signal_fence")
    /\ qpc' = [qpc EXCEPT ![t] = "idle"]
    /\ qret' = [thread |-> t, call |-> "submit"]
    /\ batch' = [batch EXCEPT ![t] = 0]
    /\ UNCHANGED <<notQueue, failed, idle_fence, idle_event, armed, completed, signaled, submitted, fenced,
                   prior>>

\* self.raw.signal(self.idle_fence, 1): queued behind everything given before.
\* The HRESULT is discarded: when the call fails nothing is queued.
WaitSignal(t) ==
    /\ qpc[t] = "idle"
    /\ Len(gpuQ) < MaxPending
    /\ \/ /\ gpuQ' = Append(gpuQ, [op |-> "signal_idle", batch |-> 0])
          /\ failed' = [failed EXCEPT ![t] = {}]
       \/ /\ Faulty
          /\ failed' = [failed EXCEPT ![t] = {"signal"}]
          /\ UNCHANGED gpuQ
    /\ prior' = [prior EXCEPT ![t] = 1 .. submitted]
    /\ qpc' = [qpc EXCEPT ![t] = "wait_set_event"]
    /\ qret' = NoQueueReturn
    /\ UNCHANGED <<notQueue, idle_fence, idle_event, armed, completed, signaled, submitted, fenced,
                   batch, steps>>

\* What wait_idle() would do if set_event_on_completion only ever registered
\* the event for a later signal of the fence.
WaitSetEventArmOnly(t) ==
    /\ qpc[t] = "wait_set_event"
    /\ armed' = TRUE
    /\ qpc' = [qpc EXCEPT ![t] = "wait_block"]
    /\ qret' = NoQueueReturn
    /\ UNCHANGED <<notQueue, failed, idle_event, idle_fence, gpuQ, completed, signaled, submitted,
                   fenced, batch, steps, prior>>

\* assert_eq!(S_OK, self.idle_fence.set_event_on_completion(self.idle_event, 1)):
\* the event is set at once when the fence has reached 1, and when it reaches
\* 1 otherwise; when the call fails the thread panics.
WaitSetEvent(t) ==
    /\ qpc[t] = "wait_set_event"
    /\ \/ /\ IF idle_fence >= 1
             THEN idle_event' = TRUE /\ UNCHANGED armed
             ELSE armed' = TRUE /\ UNCHANGED idle_event
          /\ qpc' = [qpc EXCEPT ![t] = "wait_block"]
          /\ UNCHANGED failed
       \/ /\ Faulty
          /\ failed' = [failed EXCEPT ![t] = @ \cup {"set_event"}]
          /\ qpc' = [qpc EXCEPT ![t] = "panicked"]
          /\ UNCHANGED <<idle_event, armed>>
    /\ qret' = NoQueueReturn
    /\ UNCHANGED <<notQueue, idle_fence, gpuQ, completed, signaled, submitted, fenced, batch, steps,
                   prior>>

\* What wait_idle() would do without the wait for the event.
WaitNoBlock(t) ==
    /\ qpc[t] = "wait_block"
    /\ qpc' = [qpc EXCEPT ![t] = "idle"]
    /\ qret' = [thread |-> t, call |-> "wait_idle"]
    /\ UNCHANGED <<notQueue, failed, idle_fence, idle_event, armed, gpuQ, completed, signaled,
                   submitted, fenced, batch, steps, prior>>

\* synchapi::WaitForSingleObject(self.idle_event.0, INFINITE); Ok(())
\* The result of the wait is discarded: a failed wait returns at once.
WaitBlock(t) ==
    /\ qpc[t] = "wait_block"
    /\ \/ /\ idle_event
          /\ UNCHANGED failed
       \/ /\ Faulty
          /\ failed' = [failed EXCEPT ![t] = @ \cup {"wait"}]
    /\ qpc' = [qpc EXCEPT ![t] = "idle"]
    /\ qret' = [thread |-> t, call |-> "wait_idle"]
    /\ UNCHANGED <<notQueue, idle_fence, idle_event, armed, gpuQ, completed, signaled, submitted,
                   fenced, batch, steps, prior>>

\* The native queue executes the oldest thing it was given: a batch
\* (ExecuteCommandLists) or a fence signal (ID3D12CommandQueue::Signal).
GpuStep ==
    /\ gpuQ # <<>>
    /\ gpuQ' = Tail(gpuQ)
    /\ LET cmd == Head(gpuQ) IN
          /\ completed' = IF cmd.op = "execute" THEN completed \cup {cmd.batch} ELSE completed
          /\ signaled' = IF cmd.op = "signal_fence" THEN signaled \cup {cmd.batch} ELSE signaled
          /\ idle_fence' = IF cmd.op = "signal_idle" THEN 1 ELSE idle_fence
          /\ idle_event' = IF cmd.op = "signal_idle" /\ armed THEN TRUE ELSE idle_event
          /\ armed' = IF cmd.op = "signal_idle" THEN FALSE ELSE armed
    /\ qret' = NoQueueReturn
    /\ UNCHANGED <<notQueue, failed, submitted, fenced, qpc, batch, steps, prior>>

NextQueue ==
    \/ \E t \in QueueThreads :
          \/ SubmitResetFence(t)
          \/ SubmitResetEvent(t)
          \/ SubmitExecute(t)
          \/ SubmitSignal(t)
          \/ WaitSignal(t)
          \/ WaitSetEvent(t)
          \/ WaitBlock(t)
    \/ GpuStep

(***************************************************************************)
(* Instance::enumerate_adapters                                            *)
(***************************************************************************)
NUM_HEAP_PROPERTIES == 3

\* enum MemoryGroup
Universal == 0
BufferOnly == 1
ImageOnly == 2
TargetOnly == 3
NumGroups == 4

D3D12_RESOURCE_HEAP_TIER_1 == 1
D3D12_RESOURCE_HEAP_TIER_2 == 2
HeapTiers == {D3D12_RESOURCE_HEAP_TIER_1, D3D12_RESOURCE_HEAP_TIER_2}

\* The DEFAULT, UPLOAD and READBACK heap properties of each architecture.
HeapProperties(page, pool) == [page_property |-> page, memory_pool |-> pool]

HEAPS_NUMA ==
    <<HeapProperties("NOT_AVAILABLE", "L1"),
      HeapProperties("WRITE_COMBINE", "L0"),
      HeapProperties("WRITE_BACK", "L0")>>

HEAPS_UMA ==
    <<HeapProperties("NOT_AVAILABLE", "L0"),
      HeapProperties("WRITE_COMBINE", "L0"),
      HeapProperties("WRITE_BACK", "L0")>>

HEAPS_CCUMA ==
    <<HeapProperties("NOT_AVAILABLE", "L0"),
      HeapProperties("WRITE_BACK", "L0"),
      HeapProperties("WRITE_BACK", "L0")>>

\* What the native calls answer for an adapter that passes every mandatory
\* call: the resource heap tier, the architecture flags, and the optional
\* D3D12_OPTIONS2 probe ("fail": the probe itself fails).
Hardware ==
    [tier : HeapTiers, uma : BOOLEAN, cc_uma : BOOLEAN, depth_bounds : {"fail", "no", "yes"}]

NoHardware == [tier |-> 1, uma |-> FALSE, cc_uma |-> FALSE, depth_bounds |-> "fail"]

\* An adapter of the factory, by the first native call that fails for it: the
\* cast to IDXGIAdapter2, Device::create, CheckFeatureSupport(D3D12_OPTIONS),
\* CheckFeatureSupport(ARCHITECTURE), the video memory queries, or none.
FailKinds == {"no_adapter2", "no_device", "no_options", "no_architecture", "no_memory_info"}

Candidates ==
    {[kind |-> k, hw |-> NoHardware] : k \in FailKinds}
        \cup {[kind |-> "ok", hw |-> h] : h \in Hardware}

CandidateLists == UNION {[1 .. n -> Candidates] : n \in 0 .. MaxAdapters}

\* What the architecture would be if the cache-coherent flag were tested first.
MemoryArchitectureByCoherence(uma, cc_uma) ==
    IF cc_uma THEN "CacheCoherentUMA" ELSE (IF uma THEN "UMA" ELSE "NUMA")

\* match (uma, cc_uma) { .. }
MemoryArchitectureOf(uma, cc_uma) ==
    IF uma THEN (IF cc_uma THEN "CacheCoherentUMA" ELSE "UMA") ELSE "NUMA"

HeapPropertiesOf(uma, cc_uma) ==
    IF uma THEN (IF cc_uma THEN HEAPS_CCUMA ELSE HEAPS_UMA) ELSE HEAPS_NUMA

MemoryType(props, heap) == [properties |-> props, heap_index |-> heap]

\* let base_memory_types = match memory_architecture { .. }
BaseMemoryTypes(arch) ==
    CASE arch = "NUMA" ->
           <<MemoryType({"DEVICE_LOCAL"}, 0),
             MemoryType({"CPU_VISIBLE", "COHERENT"}, 1),
             MemoryType({"CPU_VISIBLE", "COHERENT", "CPU_CACHED"}, 1)>>
      [] arch = "UMA" ->
           <<MemoryType({"DEVICE_LOCAL"}, 0),
             MemoryType({"DEVICE_LOCAL", "CPU_VISIBLE", "COHERENT"}, 0),
             MemoryType({"DEVICE_LOCAL", "CPU_VISIBLE", "COHERENT", "CPU_CACHED"}, 0)>>
      [] arch = "CacheCoherentUMA" ->
           <<MemoryType({"DEVICE_LOCAL"}, 0),
             MemoryType({"DEVICE_LOCAL", "CPU_VISIBLE", "COHERENT", "CPU_CACHED"}, 0),
             MemoryType({"DEVICE_LOCAL", "CPU_VISIBLE", "COHERENT", "CPU_CACHED"}, 0)>>

\* What the closure would be if it left the flags of every group alone.
GroupMemoryTypeKeepFlags(i, ty) == ty

\* The closure of types.extend(base_memory_types.iter().map(..)) for group i.
GroupMemoryType(i, ty) ==
    IF i = ImageOnly \/ i = TargetOnly
    THEN [ty EXCEPT !.properties = ((@ \ {"CPU_VISIBLE"}) \ {"COHERENT"}) \ {"CPU_CACHED"}]
    ELSE ty

\* for i in 0 .. NumGroups { types.extend(..) }, from group i on.
RECURSIVE GroupedMemoryTypes(_, _)
GroupedMemoryTypes(i, base) ==
    IF i >= NumGroups THEN <<>>
    ELSE [b \in 1 .. Len(base) |-> GroupMemoryType(i, base[b])]
            \o GroupedMemoryTypes(i + 1, base)

\* What memory_types would be if the base types were taken on every tier.
MemoryTypesUngrouped(heterogeneous, base) == base

\* let memory_types = if heterogeneous_resource_heaps { base } else { types }
MemoryTypes(heterogeneous, base) ==
    IF heterogeneous THEN base ELSE GroupedMemoryTypes(0, base)

\* What memory_heaps would be if only the local segment were reported.
MemoryHeapsLocalOnly(arch) == <<"local">>

\* let memory_heaps = match memory_architecture { NUMA => [local, non_local], _ => [local] }
MemoryHeaps(arch) == IF arch = "NUMA" THEN <<"local", "non_local">> ELSE <<"local">>

\* What id() would be if it went by queue_type(), which is General for Present.
QueueTypeId(family) ==
    CASE family \in {"Present", "General"} -> 1
      [] family = "Compute" -> 2
      [] family = "Transfer" -> 3

\* QueueFamily::id, without the QueueFamilyId wrapper; Normal(Graphics) is
\* unreachable!().
QueueFamilyId(family) ==
    CASE family = "Present" -> 0
      [] family = "General" -> 1
      [] family = "Compute" -> 2
      [] family = "Transfer" -> 3
      [] OTHER -> "unreachable"

\* The features of every adapter, and those of one adapter.
FixedFeatures ==
    {"ROBUST_BUFFER_ACCESS", "IMAGE_CUBE_ARRAY", "GEOMETRY_SHADER", "TESSELLATION_SHADER",
     "NON_FILL_POLYGON_MODE", "MULTI_DRAW_INDIRECT", "FORMAT_BC", "INSTANCE_RATE",
     "SAMPLER_MIP_LOD_BIAS", "SAMPLER_ANISOTROPY"}

\* What the features would be if a failed probe did not count as "unsupported".
AdapterFeaturesUnlessNo(depth_bounds) ==
    FixedFeatures \cup (IF depth_bounds # "no" THEN {"DEPTH_BOUNDS"} ELSE {})

AdapterFeatures(depth_bounds) ==
    FixedFeatures \cup (IF depth_bounds = "yes" THEN {"DEPTH_BOUNDS"} ELSE {})

\* hal::Adapter { info, physical_device: PhysicalDevice { .. }, queue_families }
\* for the i-th adapter of the factory.
Adapter(i, hw) ==
    LET heterogeneous_resource_heaps == hw.tier # D3D12_RESOURCE_HEAP_TIER_1
        memory_architecture == MemoryArchitectureOf(hw.uma, hw.cc_uma)
    IN [candidate |-> i,
        features |-> AdapterFeatures(hw.depth_bounds),
        private_caps |-> [heterogeneous_resource_heaps |-> heterogeneous_resource_heaps,
                          memory_architecture |-> memory_architecture],
        heap_properties |-> HeapPropertiesOf(hw.uma, hw.cc_uma),
        memory_types |-> MemoryTypes(heterogeneous_resource_heaps,
                                     BaseMemoryTypes(memory_architecture)),
        memory_heaps |-> MemoryHeaps(memory_architecture),
        queue_families |-> QUEUE_FAMILIES,
        is_open |-> FALSE]

\* let mut cur_index = 0; let mut adapters = Vec::new(); with IDXGIFactory6
\* an adapter comes as IDXGIAdapter2 and no cast is made.
InitEnum ==
    /\ factory \in CandidateLists
    /\ use_f6 \in BOOLEAN
    /\ use_f6 => \A i \in 1 .. Len(factory) : factory[i].kind # "no_adapter2"
    /\ cur_index = 0
    /\ adapters = <<>>
    /\ epc = "loop"

\* if hr == DXGI_ERROR_NOT_FOUND { break; } ... adapters
EnumNotFound ==
    /\ epc = "loop"
    /\ cur_index = Len(factory)
    /\ epc' = "returned"
    /\ UNCHANGED <<notEnum, factory, use_f6, cur_index, adapters>>

\* if !SUCCEEDED(hr2) { error!("Failed casting to Adapter2"); break; } ... adapters
EnumCastFail ==
    /\ epc = "loop"
    /\ cur_index < Len(factory)
    /\ ~use_f6
    /\ factory[cur_index + 1].kind = "no_adapter2"
    /\ epc' = "returned"
    /\ UNCHANGED <<notEnum, factory, use_f6, cur_index, adapters>>

\* cur_index += 1; Device::create fails: continue
EnumSkip ==
    /\ epc = "loop"
    /\ cur_index < Len(factory)
    /\ factory[cur_index + 1].kind = "no_device"
    /\ cur_index' = cur_index + 1
    /\ UNCHANGED <<notEnum, factory, use_f6, adapters, epc>>

\* cur_index += 1; assert_eq!(S_OK, ..) fails on CheckFeatureSupport,
\* EnumAdapterByLuid or QueryVideoMemoryInfo: the call panics.
EnumPanic ==
    /\ epc = "loop"
    /\ cur_index < Len(factory)
    /\ factory[cur_index + 1].kind \in {"no_options", "no_architecture", "no_memory_info"}
    /\ cur_index' = cur_index + 1
    /\ epc' = "panicked"
    /\ UNCHANGED <<notEnum, factory, use_f6, adapters>>

\* cur_index += 1; ...; adapters.push(hal::Adapter { .. })
EnumPush ==
    /\ epc = "loop"
    /\ cur_index < Len(factory)
    /\ factory[cur_index + 1].kind = "ok"
    /\ cur_index' = cur_index + 1
    /\ adapters' = Append(adapters, Adapter(cur_index + 1, factory[cur_index + 1].hw))
    /\ UNCHANGED <<notEnum, factory, use_f6, epc>>

NextEnum ==
    \/ EnumNotFound
    \/ EnumCastFail
    \/ EnumSkip
    \/ EnumPanic
    \/ EnumPush

(***************************************************************************)
(* FormatProperties: the cache of format capabilities, one slot per format *)
(***************************************************************************)

\* The formats the model keeps: Undefined (0), a format conv::map_format knows
\* no DXGI format for, one it maps to an uncompressed and one it maps to a
\* block-compressed DXGI format.
Formats == 0 .. 3
Mapped(i) == i \in {2, 3}
Compressed(i) == i = 3

None == [optimal_tiling |-> {"None"}, linear_tiling |-> {"None"}, buffer_features |-> {"None"}]

\* f::Properties::default()
DefaultProperties == [optimal_tiling |-> {}, linear_tiling |-> {}, buffer_features |-> {}]

\* D3D12_FEATURE_DATA_FORMAT_SUPPORT as CheckFeatureSupport can fill it.
TextureSupport == {"TEXTURE1D", "TEXTURE2D", "TEXTURE3D", "TEXTURECUBE"}

NativeAnswers ==
    {[Support1 |-> {}, Support2 |-> {}],
     [Support1 |-> {"TEXTURE2D", "SHADER_SAMPLE", "RENDER_TARGET"}, Support2 |-> {}],
     [Support1 |-> {"BUFFER", "IA_VERTEX_BUFFER", "SHADER_LOAD"},
      Support2 |-> {"UAV_TYPED_STORE"}]}

NoData == [Support1 |-> {}, Support2 |-> {}]

\* Every answer of the native query, over the flags get() looks at.
Support1Flags ==
    TextureSupport \cup {"BUFFER", "IA_VERTEX_BUFFER", "SHADER_SAMPLE", "RENDER_TARGET",
                         "BLENDABLE", "DEPTH_STENCIL", "SHADER_LOAD"}
Support2Flags == {"UAV_ATOMIC_ADD", "UAV_TYPED_STORE"}
FormatData == [Support1 : SUBSET Support1Flags, Support2 : SUBSET Support2Flags]

When(c, flags) == IF c THEN flags ELSE {}

\* What get() would compute if every format that is not block-compressed were
\* taken to be linear-tiling eligible.
FormatPropsLinearUnlessCompressed(compressed, data) ==
    LET can_image == data.Support1 \cap TextureSupport # {}
        can_linear == ~compressed
    IN [optimal_tiling |->
            When(can_image, {"SAMPLED", "BLIT_SRC"})
            \cup When("RENDER_TARGET" \in data.Support1, {"COLOR_ATTACHMENT", "BLIT_DST"}),
        linear_tiling |->
            When(can_linear, {"SAMPLED", "BLIT_SRC"})
            \cup When("RENDER_TARGET" \in data.Support1 /\ can_linear,
                      {"COLOR_ATTACHMENT", "BLIT_DST"}),
        buffer_features |-> {}]

\* What get() would compute if linear tiling were granted like optimal tiling.
FormatPropsLinearAsOptimal(compressed, data) ==
    LET can_image == data.Support1 \cap TextureSupport # {}
    IN [optimal_tiling |->
            When(can_image, {"SAMPLED", "BLIT_SRC"})
            \cup When("RENDER_TARGET" \in data.Support1, {"COLOR_ATTACHMENT", "BLIT_DST"}),
        linear_tiling |->
            When(can_image, {"SAMPLED", "BLIT_SRC"})
            \cup When("RENDER_TARGET" \in data.Support1, {"COLOR_ATTACHMENT", "BLIT_DST"}),
        buffer_features |-> {}]

\* The properties get() computes from the answer of the native query.
FormatProps(compressed, data) ==
    LET can_buffer == "BUFFER" \in data.Support1
        can_image == data.Support1 \cap TextureSupport # {}
        can_linear == can_image /\ ~compressed
    IN [optimal_tiling |->
            When(can_image, {"SAMPLED", "BLIT_SRC"})
            \cup When("SHADER_SAMPLE" \in data.Support1, {"SAMPLED_LINEAR"})
            \cup When("RENDER_TARGET" \in data.Support1, {"COLOR_ATTACHMENT", "BLIT_DST"})
            \cup When("BLENDABLE" \in data.Support1, {"COLOR_ATTACHMENT_BLEND"})
            \cup When("DEPTH_STENCIL" \in data.Support1, {"DEPTH_STENCIL_ATTACHMENT"})
            \cup When("UAV_ATOMIC_ADD" \in data.Support2 /\ can_image, {"STORAGE_ATOMIC"})
            \cup When("UAV_TYPED_STORE" \in data.Support2 /\ can_image, {"STORAGE"}),
        linear_tiling |->
            When(can_linear, {"SAMPLED", "BLIT_SRC"})
            \cup When("RENDER_TARGET" \in data.Support1 /\ can_linear,
                      {"COLOR_ATTACHMENT", "BLIT_DST"}),
        buffer_features |->
            When("IA_VERTEX_BUFFER" \in data.Support1, {"VERTEX"})
            \cup When("SHADER_LOAD" \in data.Support1 /\ can_buffer, {"UNIFORM_TEXEL"})
            \cup When("UAV_ATOMIC_ADD" \in data.Support2 /\ can_buffer, {"STORAGE_TEXEL_ATOMIC"})
            \cup When("UAV_TYPED_STORE" \in data.Support2 /\ can_buffer, {"STORAGE_TEXEL"})]

NoGet == [thread |-> 0, idx |-> 0, value |-> None]

\* The get() calls begun so far, for the formats of a set.
RECURSIVE TotalGets(_)
TotalGets(fs) ==
    IF fs = {} THEN 0
    ELSE LET i == CHOOSE j \in fs : TRUE IN gets[i] + TotalGets(fs \ {i})

\* What FormatProperties::new would build if it pushed None for every slot.
InitFormatEmpty ==
    /\ cache = [i \in Formats |-> None]
    /\ slot_lock = [i \in Formats |-> 0]
    /\ poisoned = [i \in Formats |-> FALSE]
    /\ fpc = [t \in Threads |-> "idle"]
    /\ fidx = [t \in Threads |-> 0]
    /\ fdata = [t \in Threads |-> NoData]
    /\ fret = NoGet
    /\ queries = [i \in Formats |-> 0]
    /\ gets = [i \in Formats |-> 0]
    /\ got = [i \in Formats |-> {}]

\* FormatProperties::new: slot 0 holds the default, every other slot None.
InitFormat ==
    /\ cache = [i \in Formats |-> IF i = 0 THEN DefaultProperties ELSE None]
    /\ slot_lock = [i \in Formats |-> 0]
    /\ poisoned = [i \in Formats |-> FALSE]
    /\ fpc = [t \in Threads |-> "idle"]
    /\ fidx = [t \in Threads |-> 0]
    /\ fdata = [t \in Threads |-> NoData]
    /\ fret = NoGet
    /\ queries = [i \in Formats |-> 0]
    /\ gets = [i \in Formats |-> 0]
    /\ got = [i \in Formats |-> {}]

\* get() returns props: the guard is dropped, which releases the slot.
GetReturn(t, props) ==
    /\ slot_lock' = [slot_lock EXCEPT ![fidx[t]] = 0]
    /\ fret' = [thread |-> t, idx |-> fidx[t], value |-> props]
    /\ got' = [got EXCEPT ![fidx[t]] = @ \cup {<<t, props>>}]
    /\ fpc' = [fpc EXCEPT ![t] = "idle"]
    /\ fdata' = [fdata EXCEPT ![t] = NoData]

\* get(idx) is called.
GetCall(t, i) ==
    /\ fpc[t] = "idle"
    /\ TotalGets(Formats) < MaxGets
    /\ gets' = [gets EXCEPT ![i] = @ + 1]
    /\ fidx' = [fidx EXCEPT ![t] = i]
    /\ fpc' = [fpc EXCEPT ![t] = "get_lock"]
    /\ fret' = NoGet
    /\ UNCHANGED <<notFormat, cache, slot_lock, poisoned, fdata, queries, got>>

\* What get() would do if it read the slot without locking it.
GetLockFree(t) ==
    /\ fpc[t] = "get_lock"
    /\ fret' = NoGet
    /\ fpc' = [fpc EXCEPT ![t] = "get_check"]
    /\ UNCHANGED <<notFormat, cache, slot_lock, poisoned, fidx, fdata, queries, gets, got>>

\* What get() would do with one mutex around the whole table.
GetLockTable(t) ==
    /\ fpc[t] = "get_lock"
    /\ \A j \in Formats : slot_lock[j] = 0
    /\ fret' = NoGet
    /\ IF poisoned[fidx[t]]
       THEN fpc' = [fpc EXCEPT ![t] = "panicked"] /\ UNCHANGED slot_lock
       ELSE /\ fpc' = [fpc EXCEPT ![t] = "get_check"]
            /\ slot_lock' = [slot_lock EXCEPT ![fidx[t]] = t]
    /\ UNCHANGED <<notFormat, cache, poisoned, fidx, fdata, queries, gets, got>>

\* let mut guard = self.0[idx].lock().unwrap(); waits for the slot's mutex and
\* panics when a thread panicked holding it.
GetLock(t) ==
    /\ fpc[t] = "get_lock"
    /\ slot_lock[fidx[t]] = 0
    /\ fret' = NoGet
    /\ IF poisoned[fidx[t]]
       THEN fpc' = [fpc EXCEPT ![t] = "panicked"] /\ UNCHANGED slot_lock
       ELSE /\ fpc' = [fpc EXCEPT ![t] = "get_check"]
            /\ slot_lock' = [slot_lock EXCEPT ![fidx[t]] = t]
    /\ UNCHANGED <<notFormat, cache, poisoned, fidx, fdata, queries, gets, got>>

\* What get() would do without the test of the slot: compute again.
GetRecompute(t) ==
    /\ fpc[t] = "get_check"
    /\ fpc' = [fpc EXCEPT ![t] = "get_map"]
    /\ fret' = NoGet
    /\ UNCHANGED <<notFormat, cache, slot_lock, poisoned, fidx, fdata, queries, gets, got>>

\* if let Some(props) = *guard { return props; }
GetCheck(t) ==
    /\ fpc[t] = "get_check"
    /\ IF cache[fidx[t]] # None
       THEN GetReturn(t, cache[fidx[t]])
       ELSE /\ fpc' = [fpc EXCEPT ![t] = "get_map"]
            /\ fret' = NoGet
            /\ UNCHANGED <<slot_lock, fdata, got>>
    /\ UNCHANGED <<notFormat, cache, poisoned, fidx, queries, gets>>

\* match conv::map_format(format) { None => { *guard = Some(props); return props; } .. }
GetMapFormat(t) ==
    /\ fpc[t] = "get_map"
    /\ IF Mapped(fidx[t])
       THEN /\ fpc' = [fpc EXCEPT ![t] = "get_query"]
            /\ fret' = NoGet
            /\ UNCHANGED <<cache, slot_lock, fdata, got>>
       ELSE /\ cache' = [cache EXCEPT ![fidx[t]] = DefaultProperties]
            /\ GetReturn(t, DefaultProperties)
    /\ UNCHANGED <<notFormat, poisoned, fidx, queries, gets>>

\* assert_eq!(S_OK, self.1.CheckFeatureSupport(FORMAT_SUPPORT, &mut data, ..)):
\* the native query fills data, or fails and the thread panics with the guard.
GetQuery(t) ==
    /\ fpc[t] = "get_query"
    /\ queries' = [queries EXCEPT ![fidx[t]] = @ + 1]
    /\ fret' = NoGet
    /\ \/ /\ \E data \in NativeAnswers : fdata' = [fdata EXCEPT ![t] = data]
          /\ fpc' = [fpc EXCEPT ![t] = "get_store"]
          /\ UNCHANGED <<slot_lock, poisoned>>
       \/ /\ fpc' = [fpc EXCEPT ![t] = "panicked"]
          /\ poisoned' = [poisoned EXCEPT ![fidx[t]] = TRUE]
          /\ slot_lock' = [slot_lock EXCEPT ![fidx[t]] = 0]
          /\ UNCHANGED fdata
    /\ UNCHANGED <<notFormat, cache, fidx, gets, got>>

\* What get() would do if it returned props without the store to the slot.
GetStoreNothing(t) ==
    /\ fpc[t] = "get_store"
    /\ GetReturn(t, FormatProps(Compressed(fidx[t]), fdata[t]))
    /\ UNCHANGED <<notFormat, cache, poisoned, fidx, queries, gets>>

\* props is computed from data; *guard = Some(props); props
GetStore(t) ==
    /\ fpc[t] = "get_store"
    /\ LET props == FormatProps(Compressed(fidx[t]), fdata[t]) IN
          /\ cache' = [cache EXCEPT ![fidx[t]] = props]
          /\ GetReturn(t, props)
    /\ UNCHANGED <<notFormat, poisoned, fidx, queries, gets>>

NextFormat ==
    \E t \in Threads :
       \/ \E i \in Formats : GetCall(t, i)
       \/ GetLock(t)
       \/ GetCheck(t)
       \/ GetMapFormat(t)
       \/ GetQuery(t)
       \/ GetStore(t)

(***************************************************************************)
(* CommandQueue::present                                                   *)
(***************************************************************************)
SwapchainIds == 1 .. NumSwapchains
Semaphores == {1, 2}
Batches == UNION {[1 .. n -> SwapchainIds] : n \in 0 .. MaxSwapchains}

InitPresent ==
    /\ swapchains = <<>>
    /\ wait_semaphores = {}
    /\ pnext = 0
    /\ presented = <<>>
    /\ ppc = "idle"
    /\ pret = "none"

\* present(swapchains, _wait_semaphores) is called.
PresentCall ==
    /\ ppc = "idle"
    /\ swapchains' \in Batches
    /\ wait_semaphores' \in SUBSET Semaphores
    /\ pnext' = 1
    /\ presented' = <<>>
    /\ ppc' = "loop"
    /\ pret' = "none"
    /\ UNCHANGED notPresent

\* What present() would do if it stopped at the first swapchain.
PresentFirstOnly ==
    /\ ppc = "loop"
    /\ pnext <= Len(swapchains)
    /\ presented' = Append(presented, swapchains[pnext])
    /\ pnext' = Len(swapchains) + 1
    /\ pret' = "none"
    /\ UNCHANGED <<notPresent, swapchains, wait_semaphores, ppc>>

\* for (swapchain, _) in swapchains { swapchain.borrow().inner.Present(1, 0); }
\* The HRESULT of Present is discarded.
PresentSwapchain ==
    /\ ppc = "loop"
    /\ pnext <= Len(swapchains)
    /\ presented' = Append(presented, swapchains[pnext])
    /\ pnext' = pnext + 1
    /\ pret' = "none"
    /\ UNCHANGED <<notPresent, swapchains, wait_semaphores, ppc>>

\* Ok(None)
PresentReturn ==
    /\ ppc = "loop"
    /\ pnext > Len(swapchains)
    /\ ppc' = "idle"
    /\ pret' = "Ok(None)"
    /\ UNCHANGED <<notPresent, swapchains, wait_semaphores, pnext, presented>>

NextPresent ==
    \/ PresentCall
    \/ PresentSwapchain
    \/ PresentReturn

(***************************************************************************)
(* PhysicalDevice::image_format_properties                                 *)
(***************************************************************************)
\* The arguments: a format, a number of dimensions, a tiling, a usage (over
\* two of the usage flags) and the view capabilities (over KIND_CUBE).
Dimensions == 0 .. MaxDimension
Tilings == {"Optimal", "Linear"}
ImageUsages == SUBSET {"SAMPLED", "COLOR_ATTACHMENT"}
ViewCapabilities == SUBSET {"KIND_CUBE"}

ImageArgs ==
    [format : Formats, dimensions : Dimensions, tiling : Tilings, usage : ImageUsages,
     view_caps : ViewCapabilities]

NoImageCall ==
    [format |-> 0, dimensions |-> 0, tiling |-> "none", usage |-> {}, view_caps |-> {}]

\* Option<image::FormatProperties>::None
NoLimits ==
    [max_extent |-> <<>>, max_levels |-> "None", max_layers |-> "None",
     sample_count_mask |-> "None", max_resource_size |-> "None"]

NoImageReturn == [args |-> NoImageCall, result |-> NoLimits]

\* let supported_usage = { .. flags }
SupportedUsage(props) ==
    When("BLIT_SRC" \in props, {"TRANSFER_SRC"})
    \cup When("BLIT_DST" \in props, {"TRANSFER_DST"})
    \cup When("SAMPLED" \in props, {"SAMPLED"})
    \cup When("STORAGE" \in props, {"STORAGE"})
    \cup When("COLOR_ATTACHMENT" \in props, {"COLOR_ATTACHMENT"})
    \cup When("DEPTH_STENCIL_ATTACHMENT" \in props, {"DEPTH_STENCIL_ATTACHMENT"})

\* Some(match tiling { Optimal => .., Linear => .. }): each `_ => return None`
\* arm leaves the function, in the order the fields are evaluated.
ImageLimits(args) ==
    IF args.tiling = "Optimal"
    THEN IF args.dimensions \notin {1, 2, 3} THEN NoLimits
         ELSE IF args.dimensions \notin {1, 2} THEN NoLimits
         ELSE [max_extent |->
                  IF args.dimensions = 1
                  THEN <<"D3D12_REQ_TEXTURE1D_U_DIMENSION", "1", "1">>
                  ELSE <<"D3D12_REQ_TEXTURE2D_U_OR_V_DIMENSION",
                         "D3D12_REQ_TEXTURE2D_U_OR_V_DIMENSION", "1">>,
               max_levels |-> "D3D12_REQ_MIP_LEVELS",
               max_layers |->
                  IF args.dimensions = 1
                  THEN "D3D12_REQ_TEXTURE1D_ARRAY_AXIS_DIMENSION"
                  ELSE "D3D12_REQ_TEXTURE2D_ARRAY_AXIS_DIMENSION",
               sample_count_mask |->
                  IF /\ args.dimensions = 2
                     /\ "KIND_CUBE" \notin args.view_caps
                     /\ args.usage \cap {"COLOR_ATTACHMENT", "DEPTH_STENCIL_ATTACHMENT"} # {}
                  THEN "0x3F" ELSE "0x1",
               max_resource_size |-> "D3D12_REQ_RESOURCE_SIZE_IN_MEGABYTES_EXPRESSION_A_TERM << 20"]
    ELSE IF args.dimensions # 2 THEN NoLimits
         ELSE [max_extent |-> <<"D3D12_REQ_TEXTURE2D_U_OR_V_DIMENSION",
                                "D3D12_REQ_TEXTURE2D_U_OR_V_DIMENSION", "1">>,
               max_levels |-> "1",
               max_layers |-> "1",
               sample_count_mask |-> "0x1",
               max_resource_size |-> "D3D12_REQ_RESOURCE_SIZE_IN_MEGABYTES_EXPRESSION_A_TERM << 20"]

\* if !supported_usage.contains(usage) { return None; } Some(..)
ImageFormatProperties(args, format_props) ==
    LET props == IF args.tiling = "Optimal"
                 THEN format_props.optimal_tiling
                 ELSE format_props.linear_tiling
    IN IF args.usage \subseteq SupportedUsage(props) THEN ImageLimits(args) ELSE NoLimits

InitImage ==
    /\ iargs = NoImageCall
    /\ iret = NoImageReturn

ImageThreads == {1}

\* image_format_properties(..) is called: conv::map_format(format)? returns
\* None for a format without native mapping; otherwise
\* self.format_properties.get(format as usize) begins.
ImageCall(t, args) ==
    /\ fpc[t] = "idle"
    /\ iargs = NoImageCall
    /\ TotalGets(Formats) < MaxGets
    /\ IF Mapped(args.format)
       THEN /\ iargs' = args
            /\ iret' = NoImageReturn
            /\ gets' = [gets EXCEPT ![args.format] = @ + 1]
            /\ fidx' = [fidx EXCEPT ![t] = args.format]
            /\ fpc' = [fpc EXCEPT ![t] = "get_lock"]
            /\ fret' = NoGet
       ELSE /\ iret' = [args |-> args, result |-> NoLimits]
            /\ UNCHANGED <<iargs, gets, fidx, fpc, fret>>
    /\ UNCHANGED <<notImage, cache, slot_lock, poisoned, fdata, queries, got>>

\* get() has returned format_props: the supported usage is tested and the
\* limits are returned.
ImageFinish(t) ==
    /\ iargs # NoImageCall
    /\ fpc[t] = "idle"
    /\ fret.thread = t
    /\ iret' = [args |-> iargs, result |-> ImageFormatProperties(iargs, fret.value)]
    /\ iargs' = NoImageCall
    /\ UNCHANGED <<notImage, formatVars>>

NextImage ==
    \E t \in ImageThreads :
       \/ \E args \in ImageArgs : ImageCall(t, args)
       \/ GetLock(t)
       \/ GetCheck(t)
       \/ GetMapFormat(t)
       \/ GetQuery(t)
       \/ GetStore(t)
       \/ ImageFinish(t)

(***************************************************************************)
(* The device lifecycle: threads that open the PhysicalDevice and drop     *)
(* Devices, in any interleaving.                                           *)
(***************************************************************************)
NextDevice ==
    \E t \in Threads :
       \/ OpenTryLock(t)
       \/ OpenCheckFeatures(t)
       \/ OpenCreateDevice(t)
       \/ OpenCreatePresentQueue(t)
       \/ OpenDeviceNew(t)
       \/ OpenQueueGroup(t)
       \/ OpenFinish(t)
       \/ \E d \in DeviceIds : DropLock(t, d)
       \/ DropClearFlag(t)
       \/ DropDestroy(t)
       \/ DropFields(t)

Init ==
    InitDevice("lifecycle", {{"ROBUST_BUFFER_ACCESS", "DEPTH_BOUNDS"}}) /\ InitQueue /\ NoEnumeration
    /\ InitFormat /\ InitPresent /\ InitImage

Next == NextDevice

Spec == Init /\ [][Next]_vars

(***************************************************************************)
(* One thread that opens the PhysicalDevice and drops the Device, with     *)
(* every native call of the teardown recorded.                             *)
(***************************************************************************)
InitTeardown == InitDevice("teardown", AdvertisedFeatureSets) /\ InitQueue /\ NoEnumeration
    /\ InitFormat /\ InitPresent /\ InitImage

NextTeardown == NextDevice

SpecTeardown == InitTeardown /\ [][NextTeardown]_vars

(***************************************************************************)
(* One thread that drives one queue handle, and the device behind it.      *)
(***************************************************************************)
InitQueueUse ==
    InitDevice("queue", {{"ROBUST_BUFFER_ACCESS", "DEPTH_BOUNDS"}}) /\ InitQueue /\ NoEnumeration
    /\ InitFormat /\ InitPresent /\ InitImage

NextQueueUse == NextQueue

SpecQueue == InitQueueUse /\ [][NextQueueUse]_vars

\* The same, with a device that goes on executing what it was given and a
\* thread that goes on running the wait_idle() it is in.
FairQueue ==
    /\ WF_vars(GpuStep)
    /\ \A t \in QueueThreads : WF_vars(WaitSetEvent(t)) /\ WF_vars(WaitBlock(t))

SpecQueueLive == InitQueueUse /\ [][NextQueueUse]_vars /\ FairQueue

(***************************************************************************)
(* Two threads that drive one queue without serialization: one holds the   *)
(* CommandQueue open() returned, the other its clone in the Device's queue *)
(* list, which has the same native queue, idle fence and idle event.       *)
(***************************************************************************)
SharedThreads == {1, 2}

InitShared ==
    InitDevice("shared", {{"ROBUST_BUFFER_ACCESS", "DEPTH_BOUNDS"}}) /\ InitQueue /\ NoEnumeration
    /\ InitFormat /\ InitPresent /\ InitImage

NextShared ==
    \/ \E t \in SharedThreads :
          \/ SubmitResetFence(t)
          \/ SubmitResetEvent(t)
          \/ SubmitExecute(t)
          \/ SubmitSignal(t)
          \/ WaitSignal(t)
          \/ WaitSetEvent(t)
          \/ WaitBlock(t)
    \/ GpuStep

SpecShared == InitShared /\ [][NextShared]_vars

(***************************************************************************)
(* One call of enumerate_adapters, for every list of adapters the factory  *)
(* can hold.                                                               *)
(***************************************************************************)
InitEnumerate ==
    InitDevice("enumerate", {{"ROBUST_BUFFER_ACCESS", "DEPTH_BOUNDS"}}) /\ InitQueue /\ InitEnum
    /\ InitFormat /\ InitPresent /\ InitImage

NextEnumerate == NextEnum

SpecEnumerate == InitEnumerate /\ [][NextEnumerate]_vars

(***************************************************************************)
(* Threads that call FormatProperties::get, in any interleaving.           *)
(***************************************************************************)
InitFormats ==
    InitDevice("formats", {{"ROBUST_BUFFER_ACCESS", "DEPTH_BOUNDS"}}) /\ InitQueue
    /\ NoEnumeration /\ InitFormat /\ InitPresent /\ InitImage

NextFormats == NextFormat

SpecFormats == InitFormats /\ [][NextFormats]_vars

(***************************************************************************)
(* get() of a format with a native mapping, from the point where the       *)
(* native query has answered, for every answer.                            *)
(***************************************************************************)
InitSupport ==
    /\ InitDevice("support", {{"ROBUST_BUFFER_ACCESS", "DEPTH_BOUNDS"}}) /\ InitQueue
    /\ NoEnumeration /\ InitPresent /\ InitImage
    /\ \E i \in {j \in Formats : Mapped(j)} :
          /\ cache = [j \in Formats |-> IF j = 0 THEN DefaultProperties ELSE None]
          /\ slot_lock = [j \in Formats |-> IF j = i THEN 1 ELSE 0]
          /\ poisoned = [j \in Formats |-> FALSE]
          /\ fpc = [t \in Threads |-> IF t = 1 THEN "get_store" ELSE "idle"]
          /\ fidx = [t \in Threads |-> IF t = 1 THEN i ELSE 0]
          /\ \E data \in FormatData : fdata = [t \in Threads |-> IF t = 1 THEN data ELSE NoData]
          /\ fret = NoGet
          /\ queries = [j \in Formats |-> IF j = i THEN 1 ELSE 0]
          /\ gets = [j \in Formats |-> IF j = i THEN 1 ELSE 0]
          /\ got = [j \in Formats |-> {}]

NextSupport == \E t \in Threads : GetStore(t)

SpecSupport == InitSupport /\ [][NextSupport]_vars

(***************************************************************************)
(* present() called again and again with every batch.                      *)
(***************************************************************************)
InitPresents ==
    InitDevice("present", {{"ROBUST_BUFFER_ACCESS", "DEPTH_BOUNDS"}}) /\ InitQueue
    /\ NoEnumeration /\ InitFormat /\ InitPresent /\ InitImage

NextPresents == NextPresent

SpecPresent == InitPresents /\ [][NextPresents]_vars

(***************************************************************************)
(* One thread that opens the PhysicalDevice, with the native queue         *)
(* creations of open() recorded.                                           *)
(***************************************************************************)
InitGroups ==
    InitDevice("groups", AdvertisedFeatureSets) /\ InitQueue /\ NoEnumeration
    /\ InitFormat /\ InitPresent /\ InitImage

NextGroups ==
    \E t \in Threads :
       \/ OpenTryLock(t)
       \/ OpenCheckFeatures(t)
       \/ OpenCreateDevice(t)
       \/ OpenCreatePresentQueue(t)
       \/ OpenDeviceNew(t)
       \/ OpenQueueGroup(t)
       \/ OpenFinish(t)

SpecGroups == InitGroups /\ [][NextGroups]_vars

(***************************************************************************)
(* One thread that opens the PhysicalDevice for one family, with as many   *)
(* priorities as the family has queues and more.                           *)
(***************************************************************************)
InitLimits ==
    InitDevice("limits", {{"ROBUST_BUFFER_ACCESS", "DEPTH_BOUNDS"}}) /\ InitQueue /\ NoEnumeration
    /\ InitFormat /\ InitPresent /\ InitImage

NextLimits == NextGroups

SpecLimits == InitLimits /\ [][NextLimits]_vars

(***************************************************************************)
(* One thread that calls image_format_properties with every argument.      *)
(***************************************************************************)
InitImages ==
    InitDevice("image", {{"ROBUST_BUFFER_ACCESS", "DEPTH_BOUNDS"}}) /\ InitQueue /\ NoEnumeration
    /\ InitFormat /\ InitPresent /\ InitImage

NextImages == NextImage

SpecImage == InitImages /\ [][NextImages]_vars

(***************************************************************************)
(* The queue handle of one device, with native calls that can fail.        *)
(***************************************************************************)
InitFaults ==
    InitDevice("faults", {{"ROBUST_BUFFER_ACCESS", "DEPTH_BOUNDS"}}) /\ InitQueue
    /\ NoEnumeration /\ InitFormat /\ InitPresent /\ InitImage

NextFaults == NextQueue

SpecFaults == InitFaults /\ [][NextFaults]_vars

(***************************************************************************)
(* Properties of open() and of Device teardown.                            *)
(***************************************************************************)
OpenPcs == {"open_features", "open_device", "open_present", "open_new", "open_groups"}

\* C1: after any sequence and interleaving of open() calls and teardowns, at
\* most one Device created from the PhysicalDevice is live.
C1_AtMostOneLiveDevice == Cardinality(LiveDevices) <= 1

\* C2: an open() that begins while the Device returned by an earlier open() is
\* live does not get past its open-flag check: it returns TooManyObjects.
C2_SecondOpenFails ==
    [][\A t \in Threads :
          (OpenTryLock(t) /\ LiveDevices # {}) => ret' = Return(t, "TooManyObjects")]_vars

\* C3: when a teardown has returned the open flag is false and the mutex free,
\* and an open() of the thread that opens and drops Devices in turn never fails
\* with TooManyObjects, and fails with MissingFeature only when a requested
\* feature is not advertised.
C3_ReopenAfterDestroy ==
    /\ [](ret.value = "Dropped" => (~is_open /\ lockHolder = 0))
    /\ [](ret.value # "TooManyObjects")
    /\ [][\A t \in Threads :
             ret' = Return(t, "MissingFeature") => ~(requested_features[t] \subseteq features)]_vars

C3_Witness == closed /\ ret.value = "Ok" /\ is_open /\ LiveDevices # {}

\* C4: an open() that starts while another open() holds the open-flag mutex can
\* take its first step (it does not wait), and that step returns TooManyObjects.
HeldByOtherOpen(t) == lockHolder \notin {0, t} /\ pc[lockHolder] \in OpenPcs

C4_ConcurrentOpenFailsFast ==
    /\ [][\A t \in Threads :
             (OpenTryLock(t) /\ HeldByOtherOpen(t)) => ret' = Return(t, "TooManyObjects")]_vars
    /\ [](\A t \in Threads :
             (pc[t] = "idle" /\ HeldByOtherOpen(t) /\ ~crashed) => ENABLED OpenTryLock(t))

C4_Witness ==
    \E t \in Threads : ret = Return(t, "TooManyObjects") /\ HeldByOtherOpen(t)

\* C5: an open() whose requested features are not all advertised returns
\* MissingFeature at its feature check, and neither before nor in that step is
\* a native device, a native queue or a Device created.
NothingCreated(t) == device_raw[t] = "unset" /\ present_queue[t] = "unset" /\ cur[t] = 0

C5_MissingFeatureCreatesNothing ==
    [][\A t \in Threads :
          (OpenCheckFeatures(t) /\ ~(requested_features[t] \subseteq features))
             => /\ ret' = Return(t, "MissingFeature")
                /\ NothingCreated(t)
                /\ device_raw'[t] = "unset" /\ present_queue'[t] = "unset" /\ cur'[t] = 0
                /\ devices' = devices]_vars

C5_Witness == ret.value = "MissingFeature" /\ \A t \in Threads : NothingCreated(t)

\* C6: every Device that open() has returned wraps a native device and a
\* present queue that were created successfully.
C6_NoHalfBuiltDevice ==
    \A d \in DeviceIds :
       devices[d].state = "live" => (devices[d].raw = "ok" /\ devices[d].present_queue # NULL)

\* The native queues the open() of a Device created, and how often the
\* teardown has released one of them.
NativeQueues(dev) ==
    ((IF dev.present_queue # NULL THEN {dev.present_queue} ELSE {})
        \cup {dev.queues[i].raw : i \in 1 .. Len(dev.queues)}) \ {NULL}

DestroyCount(dev, q) ==
    Cardinality({j \in 1 .. Len(dev.log) :
                    dev.log[j][1] = "destroy_queue" /\ dev.queues[dev.log[j][2]].raw = q})

\* C9: when a teardown has made its last call, every native queue that the
\* open() created has been destroyed exactly once.
C9_QueuesDestroyedOnce ==
    \A d \in DeviceIds :
       devices[d].state = "dropped" =>
          \A q \in NativeQueues(devices[d]) : DestroyCount(devices[d], q) = 1

\* The place of a teardown call in the order the specification gives.
Phase(e) ==
    CASE e[1] = "clear_open_flag" -> 1
      [] e[1] \in {"close_idle_event", "destroy_idle_fence", "destroy_queue"} -> 2
      [] e[1] = "destroy_shared" -> 3
      [] e[1] = "destroy_heap_srv_cbv_uav" -> 4
      [] e[1] = "destroy_heap_sampler" -> 5
      [] e[1] \in {"destroy_rtv_pool", "destroy_dsv_pool", "destroy_srv_uav_pool",
                   "destroy_sampler_pool"} -> 6
      [] e[1] = "destroy_scratch_pool" -> 7
      [] e[1] = "report_live_objects" -> 8
      [] e[1] = "destroy_raw_device" -> 9

Calls(log, names) == {j \in 1 .. Len(log) : log[j][1] \in names}
Once(log, name) == Cardinality(Calls(log, {name})) = 1

\* C10: a teardown clears the open flag, then destroys every queue of the queue
\* list in turn (event, fence, native queue), then the shared bundle, the
\* CBV/SRV/UAV heap, the sampler heap, the four CPU pools, the scratch pools,
\* then reports live objects if it can, and destroys the native device last.
C10_TeardownOrder ==
    \A d \in DeviceIds :
       LET dev == devices[d]
           log == dev.log
           n == Len(dev.queues)
       IN /\ (dev.state = "dropping" /\ log # <<>>) => log = <<<<"clear_open_flag", 0>>>>
          /\ dev.state = "dropped" =>
                /\ \A i, j \in 1 .. Len(log) : i < j => Phase(log[i]) <= Phase(log[j])
                /\ log[1] = <<"clear_open_flag", 0>> /\ Once(log, "clear_open_flag")
                /\ SubSeq(log, 2, 3 * n + 1) = QueuesDestroy(1, n)
                /\ Cardinality(Calls(log, {"close_idle_event", "destroy_idle_fence",
                                           "destroy_queue"})) = 3 * n
                /\ \A name \in {"destroy_shared", "destroy_heap_srv_cbv_uav",
                                "destroy_heap_sampler", "destroy_rtv_pool",
                                "destroy_dsv_pool", "destroy_srv_uav_pool",
                                "destroy_sampler_pool", "destroy_raw_device"} :
                      Once(log, name)
                /\ Cardinality(Calls(log, {"report_live_objects"})) <= 1
                /\ log[Len(log)] = <<"destroy_raw_device", 0>>

C10_Witness ==
    \E d \in DeviceIds :
       /\ devices[d].state = "dropped"
       /\ Len(devices[d].queues) >= 2
       /\ Calls(devices[d].log, {"destroy_scratch_pool"}) # {}
       /\ Calls(devices[d].log, {"report_live_objects"}) # {}

(***************************************************************************)
(* Properties of submit() and wait_idle() on a queue one thread drives.    *)
(***************************************************************************)

\* C7: when wait_idle() returns, every batch submitted before it was called has
\* been executed by the device.
C7_WaitIdleNotEarly ==
    qret.call = "wait_idle" => prior[qret.thread] \subseteq completed

\* The native calls of a submit() with and without a client fence.
SubmitOrder(withFence) ==
    <<"reset_idle_fence", "reset_idle_event", "execute">>
        \o (IF withFence THEN <<"signal_fence">> ELSE <<>>)

IsPrefix(a, b) == Len(a) <= Len(b) /\ a = SubSeq(b, 1, Len(a))

\* C8: submit() resets the idle fence, resets the idle event, enqueues the
\* batch, and only with a client fence enqueues a signal of it behind the
\* batch; the idle fence is 0 after its reset unless the device then signals
\* it, the idle event is unset when the batch is enqueued; a client fence is 1
\* only once its batch has been executed, and no fence is signaled for a
\* submit() without one.
C8_SubmitOrder ==
    /\ [](/\ \A t \in QueueThreads :
               /\ batch[t] # 0 => IsPrefix(steps[t], SubmitOrder(batch[t] \in fenced))
               /\ qret = [thread |-> t, call |-> "submit"] =>
                     steps[t] = SubmitOrder(submitted \in fenced)
               /\ qpc[t] \in {"submit_execute", "submit_signal"} => ~idle_event
          /\ \A i \in 1 .. Len(gpuQ) :
                gpuQ[i].op = "signal_fence" =>
                   /\ gpuQ[i].batch \in fenced
                   /\ \A j \in 1 .. Len(gpuQ) :
                         (gpuQ[j].op = "execute" /\ gpuQ[j].batch = gpuQ[i].batch) => j < i
          /\ signaled \subseteq (completed \cap fenced))
    /\ [][\A t \in QueueThreads :
             /\ SubmitResetFence(t) => idle_fence' = 0
             /\ SubmitResetEvent(t) => ~idle_event'
             /\ (SubmitExecute(t) /\ batch[t] \notin fenced) =>
                   qret' = [thread |-> t, call |-> "submit"]]_vars

C8_Witness ==
    /\ signaled # {}
    /\ (completed \ fenced) # {}
    /\ gpuQ = <<>>

(***************************************************************************)
(* Properties of enumerate_adapters.                                       *)
(***************************************************************************)
Examined == 1 .. cur_index
Returned == {adapters[j].candidate : j \in 1 .. Len(adapters)}

\* C11: an adapter whose device creation or mandatory feature query (options,
\* architecture) fails is left out and does not stop the enumeration: the call
\* does not die on it, and when only such failures occur the result holds
\* every adapter that passes, in order and fully populated, and no other.
C11_FailedAdapterSkipped ==
    /\ epc = "panicked" => factory[cur_index].kind \notin {"no_options", "no_architecture"}
    /\ \A j \in 1 .. Len(adapters) : factory[adapters[j].candidate].kind = "ok"
    /\ (epc = "returned"
          /\ \A i \in 1 .. Len(factory) :
                factory[i].kind \in {"ok", "no_device", "no_options", "no_architecture"})
       => /\ Returned = {i \in 1 .. Len(factory) : factory[i].kind = "ok"}
          /\ \A j, k \in 1 .. Len(adapters) :
                j < k => adapters[j].candidate < adapters[k].candidate
          /\ \A j \in 1 .. Len(adapters) :
                adapters[j] = Adapter(adapters[j].candidate, factory[adapters[j].candidate].hw)

(***************************************************************************)
(* Properties of FormatProperties::get.                                    *)
(***************************************************************************)
GotValues(i) == {r[2] : r \in got[i]}
GotThreads(i) == {r[1] : r \in got[i]}

\* C12: the get(i) calls of all threads return one and the same value for a
\* format, and no more native queries are made for it than get(i) was called.
C12_ConcurrentGetsAgree ==
    \A i \in Formats :
       /\ Cardinality(GotValues(i)) <= 1
       /\ queries[i] <= gets[i]

C12_Witness ==
    \E i \in Formats :
       /\ Mapped(i)
       /\ Cardinality(GotThreads(i)) >= 2
       /\ GotValues(i) # {DefaultProperties}
       /\ queries[i] >= 1

\* C13: a get(i) waiting for its slot can go on whenever no other thread holds
\* slot i, whatever slots the other threads hold; and the only lock a step of
\* get(i) takes or releases is that of slot i.
SlotFree(i) == \A u \in Threads : slot_lock[i] # u

C13_SlotsIndependent ==
    /\ [](\A t \in Threads :
             (fpc[t] = "get_lock" /\ SlotFree(fidx[t])) => ENABLED GetLock(t))
    /\ [][\A j \in Formats :
             slot_lock'[j] # slot_lock[j] =>
                \E t \in Threads : fidx[t] = j /\ fpc[t] # "idle" /\ fpc'[t] # fpc[t]]_vars

C13_Witness ==
    \E t, u \in Threads :
       /\ fidx[t] # fidx[u]
       /\ fpc[t] = "get_query" /\ slot_lock[fidx[t]] = t
       /\ fpc[u] = "get_query" /\ slot_lock[fidx[u]] = u

(***************************************************************************)
(* Properties of the queue groups open() returns.                          *)
(***************************************************************************)
Succeeded(g) == {k \in 1 .. Len(g.created) : g.created[k]}

\* C14: open() builds one group per requested family, in request order; in a
\* Device it has returned, the group of a Present family holds exactly one
\* queue whatever the priorities, and the group of a Normal family holds one
\* queue per priority whose native queue creation succeeded.
C14_GroupQueueCounts ==
    /\ \A t \in Threads :
          pc[t] = "open_groups" =>
             LET groups == devices[cur[t]].groups IN
                /\ Len(groups) = idx[t] - 1
                /\ \A k \in 1 .. Len(groups) :
                      /\ groups[k].family = families[t][k].family
                      /\ groups[k].priorities = families[t][k].priorities
    /\ \A d \in LiveDevices :
          \A k \in 1 .. Len(devices[d].groups) :
             LET g == devices[d].groups[k] IN
                IF g.family = "Present"
                THEN Len(g.queues) = 1
                ELSE /\ Len(g.created) = g.priorities
                     /\ Len(g.queues) = Cardinality(Succeeded(g))
                     /\ \A q \in 1 .. Len(g.queues) : g.queues[q].raw[2] \in Succeeded(g)

C14_Witness ==
    \E d \in LiveDevices :
       LET groups == devices[d].groups IN
          /\ \E k \in 1 .. Len(groups) :
                groups[k].family = "Present" /\ groups[k].priorities # 1
          /\ \E k \in 1 .. Len(groups) :
                /\ groups[k].family # "Present"
                /\ 0 < Len(groups[k].queues)
                /\ Len(groups[k].queues) < groups[k].priorities

\* The queues of the groups from the k-th on, one after the other.
RECURSIVE GroupedQueues(_, _)
GroupedQueues(groups, k) ==
    IF k > Len(groups) THEN <<>> ELSE groups[k].queues \o GroupedQueues(groups, k + 1)

\* C15: the queue list of a Device open() has returned is the queues of its
\* groups, in request order, and no two entries of the list have the same idle
\* fence or the same idle event.
C15_QueueListMatchesGroups ==
    \A d \in LiveDevices :
       LET dev == devices[d] IN
          /\ dev.queues = GroupedQueues(dev.groups, 1)
          /\ \A a, b \in 1 .. Len(dev.queues) :
                a # b => /\ dev.queues[a].idle_fence # dev.queues[b].idle_fence
                         /\ dev.queues[a].idle_event # dev.queues[b].idle_event

C15_Witness ==
    \E d \in LiveDevices :
       /\ Len(devices[d].groups) >= 2
       /\ Len(devices[d].queues) >= 3
       /\ \A k \in 1 .. Len(devices[d].groups) : devices[d].groups[k].queues # <<>>

(***************************************************************************)
(* Properties of wait_idle() and present().                                *)
(***************************************************************************)

\* C16: a wait_idle() in which signaling the idle fence, arming the idle event
\* or the wait failed does not return success, and does not kill its thread
\* either: the failure comes back to the caller.
C16_WaitIdleReportsFailure ==
    \A t \in QueueThreads :
       /\ qret = [thread |-> t, call |-> "wait_idle"] => failed[t] = {}
       /\ qpc[t] # "panicked"

\* C17: present() makes one native Present per swapchain of the batch, in
\* batch order, and then returns Ok(None): while it runs the calls made are
\* the prefix of the batch it has passed, on return they are the batch itself
\* (none for an empty batch), whatever the wait semaphores are.
C17_PresentPerSwapchain ==
    /\ ppc = "loop" => /\ pnext \in 1 .. Len(swapchains) + 1
                       /\ presented = SubSeq(swapchains, 1, pnext - 1)
                       /\ pret = "none"
    /\ ppc = "idle" => /\ presented = swapchains
                       /\ pret \in {"none", "Ok(None)"}
    /\ pret = "Ok(None)" => /\ ppc = "idle"
                            /\ Len(presented) = Len(swapchains)
                            /\ \A k \in 1 .. Len(swapchains) : presented[k] = swapchains[k]

C17_Witness ==
    /\ pret = "Ok(None)"
    /\ Len(swapchains) >= 2
    /\ swapchains[1] # swapchains[2]
    /\ wait_semaphores # {}
    /\ presented = swapchains

(***************************************************************************)
(* Properties of the memory types and heaps of enumerate_adapters.         *)
(***************************************************************************)
HardwareOf(j) == factory[adapters[j].candidate].hw
HostFlags == {"CPU_VISIBLE", "COHERENT", "CPU_CACHED"}

\* C18: every adapter pushed, of either heap tier and any memory architecture,
\* has at least one memory type, and the heap_index of each of its memory
\* types (counted from 0) is an index into its memory heaps.
C18_HeapIndexValid ==
    \A j \in 1 .. Len(adapters) :
       /\ Len(adapters[j].memory_types) > 0
       /\ \A k \in 1 .. Len(adapters[j].memory_types) :
             adapters[j].memory_types[k].heap_index \in 0 .. Len(adapters[j].memory_heaps) - 1

C18_Witness ==
    /\ epc = "returned"
    /\ \E j \in 1 .. Len(adapters) :
          /\ HardwareOf(j).tier = D3D12_RESOURCE_HEAP_TIER_1
          /\ ~HardwareOf(j).uma
          /\ \E k \in 1 .. Len(adapters[j].memory_types) :
                adapters[j].memory_types[k].heap_index = 1
    /\ \E j \in 1 .. Len(adapters) :
          /\ HardwareOf(j).tier = D3D12_RESOURCE_HEAP_TIER_2
          /\ HardwareOf(j).uma

\* C19: an adapter of heap tier 1 has 12 memory types, the type at index
\* 3 * group + base (from 0) being the base type of that index as far as its
\* heap and its device-local flag go, with no flag the base type lacks; an
\* adapter of another tier has the 3 base types of its architecture.
C19_MemoryTypeCount ==
    \A j \in 1 .. Len(adapters) :
       LET base == BaseMemoryTypes(MemoryArchitectureOf(HardwareOf(j).uma, HardwareOf(j).cc_uma))
           types == adapters[j].memory_types
       IN /\ Len(base) = NUM_HEAP_PROPERTIES
          /\ IF HardwareOf(j).tier = D3D12_RESOURCE_HEAP_TIER_1
             THEN /\ Len(types) = 12
                  /\ \A group \in 0 .. 3 : \A b \in 0 .. 2 :
                        LET ty == types[3 * group + b + 1]
                        IN /\ ty.heap_index = base[b + 1].heap_index
                           /\ ty.properties \subseteq base[b + 1].properties
                           /\ ty.properties \ HostFlags = base[b + 1].properties \ HostFlags
             ELSE types = base

C19_Witness ==
    /\ epc = "returned"
    /\ Len(adapters) = 2
    /\ HardwareOf(1).tier = D3D12_RESOURCE_HEAP_TIER_1
    /\ Len(adapters[1].memory_types) = 12
    /\ HardwareOf(2).tier = D3D12_RESOURCE_HEAP_TIER_2
    /\ Len(adapters[2].memory_types) = 3

\* C20: on an adapter of heap tier 1, whatever its architecture, the memory
\* types of the image and target groups carry none of the host-visible,
\* host-coherent and host-cached flags, those of the reserved and buffer
\* groups carry the flags of their base type, and the heap_index of a type of
\* any group is that of its base type.
C20_GroupFlags ==
    \A j \in 1 .. Len(adapters) :
       HardwareOf(j).tier = D3D12_RESOURCE_HEAP_TIER_1 =>
          LET base == BaseMemoryTypes(adapters[j].private_caps.memory_architecture)
              types == adapters[j].memory_types
              TypeOf(group, b) == types[NUM_HEAP_PROPERTIES * group + b]
          IN \A b \in 1 .. NUM_HEAP_PROPERTIES :
                /\ \A group \in {ImageOnly, TargetOnly} :
                      TypeOf(group, b).properties \cap HostFlags = {}
                /\ \A group \in {Universal, BufferOnly} :
                      TypeOf(group, b).properties = base[b].properties
                /\ \A group \in 0 .. NumGroups - 1 :
                      TypeOf(group, b).heap_index = base[b].heap_index

C20_Witness ==
    \E j \in 1 .. Len(adapters) :
       /\ HardwareOf(j).tier = D3D12_RESOURCE_HEAP_TIER_1
       /\ HardwareOf(j).uma
       /\ "CPU_VISIBLE" \in adapters[j].memory_types[BufferOnly * NUM_HEAP_PROPERTIES + 2].properties
       /\ "CPU_VISIBLE" \notin adapters[j].memory_types[ImageOnly * NUM_HEAP_PROPERTIES + 2].properties
       /\ adapters[j].memory_types[TargetOnly * NUM_HEAP_PROPERTIES + 2].properties = {"DEVICE_LOCAL"}

\* C21: the architecture of an adapter follows the native flags: UMA with
\* cache coherence is CacheCoherentUMA, UMA without is UMA, anything else is
\* NUMA; the heap-property table and the base memory types are those of that
\* architecture (on NUMA only the first type is device-local and the others
\* are in heap 1; otherwise all are device-local in heap 0), and the adapter
\* has the heaps local and non-local on NUMA and the heap local otherwise.
C21_ArchitectureFromFlags ==
    \A j \in 1 .. Len(adapters) :
       LET hw == HardwareOf(j)
           arch == adapters[j].private_caps.memory_architecture
           types == adapters[j].memory_types
       IN /\ (hw.uma /\ hw.cc_uma) => arch = "CacheCoherentUMA"
          /\ (hw.uma /\ ~hw.cc_uma) => arch = "UMA"
          /\ ~hw.uma => arch = "NUMA"
          /\ adapters[j].heap_properties =
                (CASE arch = "CacheCoherentUMA" -> HEAPS_CCUMA
                   [] arch = "UMA" -> HEAPS_UMA
                   [] arch = "NUMA" -> HEAPS_NUMA)
          /\ \A b \in 1 .. NUM_HEAP_PROPERTIES :
                IF arch = "NUMA"
                THEN /\ ("DEVICE_LOCAL" \in types[b].properties) = (b = 1)
                     /\ types[b].heap_index = (IF b = 1 THEN 0 ELSE 1)
                ELSE /\ "DEVICE_LOCAL" \in types[b].properties
                     /\ types[b].heap_index = 0
          /\ \A b \in 2 .. NUM_HEAP_PROPERTIES :
                ("CPU_CACHED" \in types[b].properties) = (b = 3 \/ arch = "CacheCoherentUMA")
          /\ adapters[j].memory_heaps =
                (IF arch = "NUMA" THEN <<"local", "non_local">> ELSE <<"local">>)

C21_Witness ==
    /\ epc = "returned"
    /\ Len(adapters) = 2
    /\ ~HardwareOf(1).uma /\ HardwareOf(1).cc_uma
    /\ adapters[1].private_caps.memory_architecture = "NUMA"
    /\ Len(adapters[1].memory_heaps) = 2
    /\ HardwareOf(2).uma /\ HardwareOf(2).cc_uma
    /\ adapters[2].private_caps.memory_architecture = "CacheCoherentUMA"
    /\ Len(adapters[2].memory_heaps) = 1

\* C22: id() is 0 for Present, 1 for General, 2 for Compute and 3 for
\* Transfer; QUEUE_FAMILIES has 4 entries and the id of each is its position;
\* every adapter pushed has these 4 families in that order.
C22_FamilyIdIsPosition ==
    /\ QueueFamilyId("Present") = 0
    /\ QueueFamilyId("General") = 1
    /\ QueueFamilyId("Compute") = 2
    /\ QueueFamilyId("Transfer") = 3
    /\ Len(QUEUE_FAMILIES) = 4
    /\ \A j \in 1 .. Len(adapters) :
          /\ adapters[j].queue_families = <<"Present", "General", "Compute", "Transfer">>
          /\ \A k \in 1 .. Len(adapters[j].queue_families) :
                QueueFamilyId(adapters[j].queue_families[k]) = k - 1

C22_Witness ==
    /\ epc = "returned"
    /\ Len(adapters) = 2
    /\ \A j \in 1 .. 2 : QueueFamilyId(adapters[j].queue_families[4]) = 3

\* C25: an adapter whose depth-bounds probe fails is pushed like any adapter
\* that passes the mandatory calls; the features of an adapter hold
\* DEPTH_BOUNDS exactly when the probe succeeded and reported support, and
\* are the fixed set apart from it.
C25_DepthBoundsProbeOptional ==
    /\ \A i \in Examined : factory[i].kind = "ok" /\ epc # "panicked" => i \in Returned
    /\ \A j \in 1 .. Len(adapters) :
          /\ ("DEPTH_BOUNDS" \in adapters[j].features) = (HardwareOf(j).depth_bounds = "yes")
          /\ adapters[j].features \ {"DEPTH_BOUNDS"} = FixedFeatures
          /\ "DEPTH_BOUNDS" \notin FixedFeatures

C25_Witness ==
    /\ epc = "returned"
    /\ Len(adapters) = 2
    /\ HardwareOf(1).depth_bounds = "fail"
    /\ "DEPTH_BOUNDS" \notin adapters[1].features
    /\ HardwareOf(2).depth_bounds = "yes"
    /\ "DEPTH_BOUNDS" \in adapters[2].features

(***************************************************************************)
(* Properties of the format properties get() computes and caches.          *)
(***************************************************************************)

\* C23: whatever the native query answered, get() stores and returns an empty
\* linear-tiling feature set for a format that is block-compressed or has none
\* of the 1D, 2D, 3D and cube texture supports.
C23_LinearTilingEligibility ==
    [][\A t \in Threads :
          (GetStore(t) /\ (Compressed(fidx[t]) \/ fdata[t].Support1 \cap TextureSupport = {}))
             => /\ fret'.value.linear_tiling = {}
                /\ cache'[fidx[t]].linear_tiling = {}]_vars

C23_Witness ==
    /\ Compressed(fret.idx)
    /\ fret.value = cache[fret.idx]
    /\ {"SAMPLED", "COLOR_ATTACHMENT"} \subseteq fret.value.optimal_tiling
    /\ fret.value.linear_tiling = {}

\* C24: slot 0 holds the default properties from construction on, so get(0),
\* which is what format_properties(None) calls, returns the default and makes
\* no native query; get() of a format without native mapping returns the
\* default, leaves it in the slot, and makes no native query either.
C24_DefaultSlots ==
    /\ cache[0] = DefaultProperties
    /\ \A i \in Formats :
          (i = 0 \/ ~Mapped(i)) =>
             /\ queries[i] = 0
             /\ GotValues(i) \subseteq {DefaultProperties}
             /\ got[i] # {} => cache[i] = DefaultProperties
             /\ cache[i] \in {None, DefaultProperties}

C24_Witness ==
    /\ got[0] # {}
    /\ \E i \in Formats \ {0} :
          /\ ~Mapped(i)
          /\ got[i] # {}
          /\ cache[i] = DefaultProperties
          /\ fret.idx = i /\ fret.value = DefaultProperties

(***************************************************************************)
(* Properties of the open flag and its mutex.                              *)
(***************************************************************************)
Quiescent == ~crashed /\ \A t \in Threads : pc[t] = "idle"
DestroyPcs == {"drop_destroy", "drop_fields"}

\* C26: whenever no open() and no teardown is running, the open flag is true
\* exactly when a Device made from the PhysicalDevice is live.
C26_FlagMatchesLiveDevice ==
    Quiescent => (is_open <=> LiveDevices # {})

\* C27: a thread that is destroying the parts of a Device does not hold the
\* open-flag mutex, and an open() is never answered TooManyObjects because of
\* a thread in that phase: the mutex is then held by some other call.
C27_TeardownReleasesLockFirst ==
    /\ [](\A t \in Threads : pc[t] \in DestroyPcs => lockHolder # t)
    /\ [][\A t \in Threads :
             (OpenTryLock(t) /\ ret' = Return(t, "TooManyObjects"))
                => (lockHolder # 0 /\ pc[lockHolder] \notin DestroyPcs)]_vars
    /\ [](\A t \in Threads :
             (pc[t] = "idle" /\ t \in ActiveThreads /\ ~crashed /\ lockHolder = 0
              /\ FreeSlots # {} /\ \E u \in Threads : pc[u] \in DestroyPcs)
                => ENABLED (OpenTryLock(t) /\ pc'[t] = "open_features"))

C27_Witness ==
    \E t, u \in Threads :
       /\ pc[t] = "drop_destroy"
       /\ pc[u] \in OpenPcs
       /\ lockHolder = u

(***************************************************************************)
(* Properties of wait_idle() under a device that makes progress, and on a  *)
(* queue two threads drive.                                                *)
(***************************************************************************)

\* C28: on a queue one thread drives, with a device that executes everything
\* it is given, a wait_idle() that has begun returns, whatever submit() and
\* wait_idle() calls came before it.
C28_WaitIdleReturns ==
    \A t \in QueueThreads :
       (qpc[t] \in {"wait_set_event", "wait_block"}) ~> (qpc[t] = "idle")

C28_Witness ==
    /\ qret = [thread |-> 1, call |-> "wait_idle"]
    /\ submitted = MaxBatches
    /\ completed = 1 .. submitted
    /\ gpuQ # <<>>

\* C29: when a submit() and a wait_idle() of two threads interleave on one
\* queue, a wait_idle() can be left waiting for an event nothing will set: the
\* device has executed everything, the other thread is in no call, and from
\* there on the waiter stays blocked unless a new call is made on the queue.
Stranded(t) ==
    /\ qpc[t] = "wait_block"
    /\ ~idle_event
    /\ gpuQ = <<>>
    /\ completed = 1 .. submitted
    /\ \A u \in SharedThreads \ {t} : qpc[u] = "idle"

C29_StrandedWaiterStays ==
    [][\A t \in SharedThreads :
          Stranded(t) => (Stranded(t)' \/ \E u \in SharedThreads \ {t} : qpc'[u] # "idle")]_vars

C29_Witness ==
    \E t \in SharedThreads :
       /\ Stranded(t)
       /\ submitted >= 1
       /\ prior[t] \subseteq completed

(***************************************************************************)
(* Properties of the native queries get() makes.                           *)
(***************************************************************************)
InGet == {"get_check", "get_map", "get_query", "get_store"}

\* C30: the native query is made at most once for a format slot, however many
\* get() calls there are and however the threads interleave; a thread between
\* its test of the slot and its store holds the lock of the slot.
C30_QueryAtMostOnce ==
    /\ \A i \in Formats : queries[i] <= 1
    /\ \A t \in Threads : fpc[t] \in InGet => slot_lock[fidx[t]] = t

C30_Witness ==
    \E i \in Formats :
       /\ queries[i] = 1
       /\ gets[i] = MaxGets
       /\ Cardinality(GotThreads(i)) >= 2
       /\ ~poisoned[i]

(***************************************************************************)
(* Properties of the slots of the format cache.                            *)
(***************************************************************************)

\* C31: a slot that holds a value keeps it for good; a step of get(i) changes
\* no slot other than i; the value a get(i) returns is the one slot i holds,
\* so that every get(i) returns what the first one returned.
C31_SlotsWriteOnce ==
    /\ [][\A i \in Formats :
             /\ cache[i] # None => cache'[i] = cache[i]
             /\ cache'[i] # cache[i] =>
                   \E t \in Threads : fidx[t] = i /\ slot_lock[i] = t /\ fpc'[t] = "idle"]_vars
    /\ [](fret.value # None => fret.value = cache[fret.idx])
    /\ [](\A i \in Formats : Cardinality(GotValues(i)) <= 1)

C31_Witness ==
    \E i \in Formats :
       /\ Mapped(i)
       /\ Cardinality(got[i]) >= 2
       /\ cache[i] # DefaultProperties
       /\ fret.idx = i /\ fret.value = cache[i]
       /\ \E j \in Formats \ {0, i} : cache[j] # None

(***************************************************************************)
(* Properties of an open() that fails.                                     *)
(***************************************************************************)
\* C32: an open() that returns TooManyObjects or MissingFeature changes
\* neither the open flag nor the features nor any Device, in the step that
\* returns and while it held the mutex before; after MissingFeature the mutex
\* is free, and TooManyObjects leaves the mutex with the call that held it.
C32_FailedOpenChangesNothing ==
    /\ [][\A t \in Threads :
             /\ (ret' = Return(t, "MissingFeature") \/ ret' = Return(t, "TooManyObjects"))
                   => /\ is_open' = is_open
                      /\ features' = features
                      /\ devices' = devices
             /\ ret' = Return(t, "TooManyObjects")
                   => lockHolder' = lockHolder /\ lockHolder # t
             /\ ret' = Return(t, "MissingFeature") => lockHolder = t /\ lockHolder' = 0
             /\ (pc[t] = "open_features" /\ lockHolder = t)
                   => is_open' = is_open /\ features' = features]_vars
    /\ [](ret.value = "MissingFeature" => lockHolder = 0 /\ pc[ret.thread] = "idle")

C32_Witness ==
    \E t \in Threads :
       /\ ret = Return(t, "MissingFeature")
       /\ is_open
       /\ LiveDevices # {}
       /\ lockHolder = 0

(***************************************************************************)
(* Properties that relate the feature sets get() computes.                 *)
(***************************************************************************)

\* C33: whatever the native query answered, the linear-tiling features get()
\* stores and returns for a format are among its optimal-tiling features.
C33_LinearWithinOptimal ==
    /\ \A i \in Formats :
          cache[i] # None => cache[i].linear_tiling \subseteq cache[i].optimal_tiling
    /\ fret.value # None => fret.value.linear_tiling \subseteq fret.value.optimal_tiling

C33_Witness ==
    /\ ~Compressed(fret.idx)
    /\ fret.value = cache[fret.idx]
    /\ fret.value.linear_tiling = {"SAMPLED", "BLIT_SRC", "COLOR_ATTACHMENT", "BLIT_DST"}
    /\ "STORAGE" \in fret.value.optimal_tiling

(***************************************************************************)
(* Properties of the size of the queue groups open() returns.              *)
(***************************************************************************)

\* C34: in the Device a successful open() returns, no group has more queues
\* than max_queues() of its family: 1 for Present, 16 for the others.
C34_GroupWithinMaxQueues ==
    \A d \in DeviceIds :
       devices[d].state = "live" =>
          \A g \in 1 .. Len(devices[d].groups) :
             Len(devices[d].groups[g].queues) <= max_queues(devices[d].groups[g].family)

(***************************************************************************)
(* Properties of image_format_properties.                                  *)
(***************************************************************************)

\* C35: for a format with native mapping, optimal tiling and a usage the
\* optimal-tiling features of the format cover, image_format_properties
\* returns limits when the number of dimensions is 1, 2 or 3, and None for
\* any other number.
C35_LimitsForEveryDimensionality ==
    LET args == iret.args IN
       (/\ args.tiling = "Optimal"
        /\ Mapped(args.format)
        /\ args.usage \subseteq SupportedUsage(cache[args.format].optimal_tiling))
          => (iret.result # NoLimits <=> args.dimensions \in {1, 2, 3})

====
